---- MODULE Spec2Model ----
(***************************************************************************)
(* A model of polymarket_monitor_engine: the order-book registry, the      *)
(* consume loop's routing of book messages, the signal engine, the         *)
(* websocket feed's subscription frames and the multiplex sink.            *)
(*                                                                         *)
(* Python's None is the empty set and a present value x is {x}, so that an *)
(* Optional[int] is a set of at most one integer.  A dict is a function    *)
(* whose DOMAIN is the set of its keys.                                    *)
(***************************************************************************)
EXTENDS Integers, Sequences, FiniteSets, TLC

VARIABLES
    books,          \* OrderBookRegistry._books: token_id -> OrderBookState
    lastCall,       \* the registry method called by the last step, with its arguments
    lastResult,     \* the OrderBookUpdateResult that call returned
    now,            \* the clock (ClockPort.now_ms), in ticks of 30 s
    resync_on_gap,  \* PolymarketComponent._resync_on_gap
    token_ids,      \* PolymarketComponent._token_ids, as the last refresh left it
    last_resync_ms, \* PolymarketComponent._last_resync_ms
    resubscribed,   \* the argument of feed.resubscribe if the last step called it
    handed,         \* the book the last step handed to the detector's handle_book
    awaiting,       \* tokens with a sequence gap and no full snapshot applied since
    consume_running,\* _consume_loop has not ended
    consumeCall,    \* the kind of the last message consumed, and whether its handling raised
    resubscribedAt, \* the times of the last two feed.resubscribe calls, the latest last
    cfg,            \* the SignalEngine's constructor arguments
    token_meta,     \* SignalEngine._token_meta
    windows,        \* SignalEngine._windows: token_id -> TradeWindow
    cooldowns,      \* SignalEngine._cooldowns: <<token_id, signal>> -> ts
    last_price,     \* SignalEngine._last_price: token_id -> <<price, ts>>
    best_quote,     \* SignalEngine._best_quote: token_id -> <<best_bid, best_ask>>
    trade_buckets,  \* SignalEngine._trade_buckets: <<market_id, side>> -> bucket
    published,      \* the events the last step passed to sink.publish, in order
    sigCall,        \* the SignalEngine method run by the last step
    lastEmit,       \* <<token_id, signal>> -> time of the latest emission
    droppedSince,   \* keys whose token update_registry dropped after lastEmit
    reEmitted,      \* keys the last handler emitted again with no drop in between
    suspended,      \* the handle_trade that waits in sink.publish for its major_change
    ws_open,        \* ClobWebSocketFeed: _ws is set and not closing or closed
    stopped,        \* ClobWebSocketFeed._stop
    desired_ids,    \* ClobWebSocketFeed._desired_ids
    subscribed_ids, \* ClobWebSocketFeed._subscribed_ids
    sent,           \* the frames the last feed call sent, in order
    feedCall,       \* the feed method run by the last step
    msg_pc,         \* where messages() is suspended
    backoff,        \* messages(): the local backoff
    ping_task,      \* ClobWebSocketFeed._ping_task: "none", "running" or "finished"
    close_pc,       \* where close() is suspended, or "idle" or "returned"
    pending,        \* the items of the current frame that follow the yielded one
    yielded,        \* the FeedMessage of the last yield
    wire,           \* the ping and pong texts the last step sent on the socket
    sleeping,       \* the delay of the last asyncio.sleep(backoff)
    failures,       \* failures since the last processed frame (up to the cap)
    processed,      \* the items the last step of the loop body went through
    prev_subscribed,\* _subscribed_ids as the last connection found it
    muxCfg,         \* MultiplexEventSink: _sinks (names in dict order), _mode, _required, _routes
    called,         \* the sinks the last publish called, in order
    errors,         \* the sinks whose publish raised in the last publish
    raised,         \* the sinks named by the error the last publish raised, if it raised
    muxCall,        \* the event type, the failing sinks and the targets of the last publish
    refresh_pc,     \* _refresh_loop: "ready" for an iteration, "sleeping" or "ended"
    markets_by_id,  \* PolymarketComponent._markets_by_id (the ids)
    component_token_meta,   \* PolymarketComponent._token_meta (the token ids)
    lifecycle_ready,        \* PolymarketComponent._lifecycle_ready
    startup_notified,       \* PolymarketComponent._startup_notified
    last_refresh_start_ms,  \* PolymarketComponent._last_refresh_start_ms
    unsub_prev_volume,      \* PolymarketComponent._unsub_prev_volume
    unsub_cooldowns,        \* PolymarketComponent._unsub_cooldowns
    refreshLog,     \* the calls the last refresh iteration made, in order
    selection,      \* the arguments and results of the last selection call
    webhook,        \* DiscordWebhookSink._post_payload: its position, attempt and requests
    aggregator,     \* DiscordWebhookSink._agg_buffers, _agg_tasks and the payloads posted
    runner,         \* PolymarketComponent.run: its tasks, the feed and how it ended
    sending         \* the feed calls suspended at the websocket send, and the server's view

bookVars == <<books, lastCall, lastResult>>
consumeVars == <<now, resync_on_gap, token_ids, last_resync_ms, resubscribed,
                 handed, awaiting, consume_running, consumeCall, resubscribedAt>>
sigVars == <<cfg, token_meta, windows, cooldowns, last_price, best_quote,
             trade_buckets, published, sigCall, lastEmit, droppedSince, reEmitted,
             suspended>>
msgState == <<msg_pc, backoff, ping_task, close_pc, pending, yielded>>
msgGhosts == <<sleeping, failures, prev_subscribed>>
msgVars == <<msgState, msgGhosts, wire, processed>>
feedCore == <<ws_open, stopped, desired_ids, subscribed_ids, sent, feedCall>>
feedVars == <<feedCore, msgVars>>
muxVars == <<muxCfg, called, errors, raised, muxCall>>
extraVars == <<selection, webhook, aggregator, runner, sending>>
refreshVars == <<refresh_pc, markets_by_id, component_token_meta, lifecycle_ready,
                 startup_notified, last_refresh_start_ms, unsub_prev_volume,
                 unsub_cooldowns, refreshLog>>
vars == <<books, lastCall, lastResult, now, resync_on_gap, token_ids,
          last_resync_ms, resubscribed, handed, awaiting, consume_running, consumeCall,
          resubscribedAt, cfg, token_meta, windows, cooldowns, last_price, best_quote,
          trade_buckets, published, sigCall, lastEmit, droppedSince, reEmitted, suspended,
          ws_open, stopped, desired_ids, subscribed_ids, sent, feedCall,
          msg_pc, backoff, ping_task, close_pc, pending, yielded, wire, sleeping,
          failures, processed, prev_subscribed,
          muxCfg, called, errors, raised, muxCall,
          refresh_pc, markets_by_id, component_token_meta, lifecycle_ready,
          startup_notified, last_refresh_start_ms, unsub_prev_volume,
          unsub_cooldowns, refreshLog,
          selection, webhook, aggregator, runner, sending>>

None == {}
Some(x) == {x}
Val(opt) == CHOOSE x \in opt : TRUE

Min(S) == CHOOSE x \in S : \A y \in S : x <= y
Max(S) == CHOOSE x \in S : \A y \in S : x >= y

(***************************************************************************)
(* Bounds of the order-book model.                                         *)
(***************************************************************************)
Tokens == {"t1"}
Prices == {1, 2}
Sizes == {0, 1}             \* 0 stands for every size <= 0
MaxSeq == 3                 \* sequence numbers carried by messages: 1..MaxSeq
MaxClock == 2               \* ticks the clock advances
\* Time is counted in ticks of 30 s.
StartTick == 4              \* the clock at start-up
ResyncMinInterval == 1      \* resync_min_interval_sec = 30

Level == [price : Prices, size : Sizes]
\* A snapshot message lists at most one level per side.
LevelLists == {<<>>} \cup {<<l>> : l \in Level}
Snapshots == [token_id : Tokens, bids : LevelLists, asks : LevelLists]

\* The sequence field of a payload as it arrives: missing, an integer, or a
\* value int() rejects.
RawSeqs == {[kind |-> "missing", v |-> 0], [kind |-> "bad", v |-> 0]}
             \cup [kind : {"int"}, v : 1..MaxSeq]
\* A price_change item; side "X" is any side other than BUY and SELL.
RawChange == [side : {"BUY", "SELL", "X"}, price : Prices, size : Sizes]
\* A price_change message carries at most two items.
RawChangeLists == {<<>>} \cup {<<c>> : c \in RawChange}
                    \cup {<<c, d>> : c \in RawChange, d \in RawChange}

EmptyBook == [p \in {} |-> 0]

(***************************************************************************)
(* orderbook.py: helpers                                                   *)
(***************************************************************************)
_extract_sequence(raw) == IF raw.kind = "int" THEN Some(raw.v) ELSE None

_parse_price_changes(raw_changes) ==
    SelectSeq(raw_changes, LAMBDA item : item.side \in {"BUY", "SELL"})

\* A variant that reports only forward jumps: a replayed or older sequence
\* number passes as if it were in order.
_sequence_gap_forward_only(last_seq, next_seq) ==
    IF next_seq = None THEN [resync |-> FALSE, expected |-> None]
    ELSE IF last_seq = None THEN [resync |-> FALSE, expected |-> None]
    ELSE LET expected == Val(last_seq) + 1 IN
         IF Val(next_seq) > expected
         THEN [resync |-> TRUE, expected |-> Some(expected)]
         ELSE [resync |-> FALSE, expected |-> Some(expected)]

_sequence_gap(last_seq, next_seq) ==
    IF next_seq = None THEN [resync |-> FALSE, expected |-> None]
    ELSE IF last_seq = None THEN [resync |-> FALSE, expected |-> None]
    ELSE LET expected == Val(last_seq) + 1 IN
         IF Val(next_seq) # expected
         THEN [resync |-> TRUE, expected |-> Some(expected)]
         ELSE [resync |-> FALSE, expected |-> Some(expected)]

\* {level.price: level.size for level in levels}: the last level of a price wins.
DictOfLevels(levels) ==
    [p \in {levels[i].price : i \in DOMAIN levels} |->
        levels[Max({i \in DOMAIN levels : levels[i].price = p})].size]

NewState == [bids |-> EmptyBook, asks |-> EmptyBook, last_seq |-> None]

\* OrderBookState.apply_snapshot
StateApplySnapshot(state, snapshot, seq) ==
    [bids |-> DictOfLevels(snapshot.bids),
     asks |-> DictOfLevels(snapshot.asks),
     last_seq |-> IF seq # None THEN seq ELSE state.last_seq]

\* OrderBookState.apply_change on one side's dict
BookApplyChange(book, price, size) ==
    IF size <= 0
    THEN [p \in DOMAIN book \ {price} |-> book[p]]
    ELSE [p \in DOMAIN book \cup {price} |-> IF p = price THEN size ELSE book[p]]

\* OrderBookState.apply_change
StateApplyChange(state, change) ==
    IF change.side = "BUY"
    THEN [state EXCEPT !.bids = BookApplyChange(state.bids, change.price, change.size)]
    ELSE [state EXCEPT !.asks = BookApplyChange(state.asks, change.price, change.size)]

RECURSIVE StateApplyChanges(_, _)
StateApplyChanges(state, changes) ==
    IF changes = <<>> THEN state
    ELSE StateApplyChanges(StateApplyChange(state, Head(changes)), Tail(changes))

\* OrderBookState.clear
StateClear(state) == [bids |-> EmptyBook, asks |-> EmptyBook, last_seq |-> None]

RECURSIVE LevelsAscending(_)
LevelsAscending(book) ==
    IF DOMAIN book = {} THEN <<>>
    ELSE LET p == Min(DOMAIN book) IN
         <<[price |-> p, size |-> book[p]]>>
            \o LevelsAscending([q \in DOMAIN book \ {p} |-> book[q]])

RECURSIVE LevelsDescending(_)
LevelsDescending(book) ==
    IF DOMAIN book = {} THEN <<>>
    ELSE LET p == Max(DOMAIN book) IN
         <<[price |-> p, size |-> book[p]]>>
            \o LevelsDescending([q \in DOMAIN book \ {p} |-> book[q]])

\* OrderBookState.to_snapshot
ToSnapshot(token_id, state) ==
    [token_id |-> token_id,
     bids |-> LevelsDescending(state.bids),
     asks |-> LevelsAscending(state.asks)]

Result(token_id, snapshot, resync_needed, expected_seq, received_seq) ==
    [token_id |-> token_id, snapshot |-> snapshot, resync_needed |-> resync_needed,
     expected_seq |-> expected_seq, received_seq |-> received_seq]

(***************************************************************************)
(* OrderBookRegistry.apply_snapshot: the registry after the call and the   *)
(* value returned.                                                         *)
(***************************************************************************)
SnapshotState(bks, snapshot) ==
    IF snapshot.token_id \in DOMAIN bks THEN bks[snapshot.token_id] ELSE NewState

Put(bks, token_id, state) ==
    [t \in DOMAIN bks \cup {token_id} |-> IF t = token_id THEN state ELSE bks[t]]

RegistryApplySnapshotBooks(bks, snapshot, raw_seq) ==
    LET seq == _extract_sequence(raw_seq)
        state == SnapshotState(bks, snapshot)
        gap == _sequence_gap(state.last_seq, seq)
    IN IF gap.resync
       THEN Put(bks, snapshot.token_id, StateClear(state))
       ELSE Put(bks, snapshot.token_id, StateApplySnapshot(state, snapshot, seq))

RegistryApplySnapshotResult(bks, snapshot, raw_seq) ==
    LET seq == _extract_sequence(raw_seq)
        state == SnapshotState(bks, snapshot)
        gap == _sequence_gap(state.last_seq, seq)
    IN IF gap.resync
       THEN Result(Some(snapshot.token_id), None, TRUE, gap.expected, seq)
       ELSE Result(Some(snapshot.token_id), Some(snapshot), FALSE, None, None)

(***************************************************************************)
(* OrderBookRegistry.apply_price_change                                    *)
(***************************************************************************)
\* A variant of apply_price_change that starts an empty book for a token it
\* has no state of.
PriceChangeStartsBook(bks, payload) ==
    IF payload.token_id = None THEN bks
    ELSE IF Val(payload.token_id) \in DOMAIN bks THEN bks
    ELSE [t \in DOMAIN bks \cup {Val(payload.token_id)} |->
            IF t \in DOMAIN bks THEN bks[t] ELSE NewState]

RegistryApplyPriceChangeBooks(bks, payload) ==
    IF payload.token_id = None THEN bks
    ELSE LET token_id == Val(payload.token_id) IN
    IF token_id \notin DOMAIN bks THEN bks
    ELSE LET state == bks[token_id]
             seq == _extract_sequence(payload.seq)
             gap == _sequence_gap(state.last_seq, seq)
             changes == _parse_price_changes(payload.changes)
         IN IF gap.resync THEN [bks EXCEPT ![token_id] = StateClear(state)]
            ELSE IF changes = <<>> THEN bks
            ELSE [bks EXCEPT ![token_id] =
                    [StateApplyChanges(state, changes) EXCEPT
                        !.last_seq = IF seq # None THEN seq ELSE state.last_seq]]

RegistryApplyPriceChangeResult(bks, payload) ==
    IF payload.token_id = None THEN Result(None, None, FALSE, None, None)
    ELSE LET token_id == Val(payload.token_id) IN
    IF token_id \notin DOMAIN bks
    THEN Result(Some(token_id), None, FALSE, None, None)
    ELSE LET state == bks[token_id]
             seq == _extract_sequence(payload.seq)
             gap == _sequence_gap(state.last_seq, seq)
             changes == _parse_price_changes(payload.changes)
             after == RegistryApplyPriceChangeBooks(bks, payload)
         IN IF gap.resync THEN Result(Some(token_id), None, TRUE, gap.expected, seq)
            ELSE IF changes = <<>> THEN Result(Some(token_id), None, FALSE, None, None)
            ELSE Result(Some(token_id), Some(ToSnapshot(token_id, after[token_id])),
                        FALSE, None, None)

NoCall == [op |-> "none", token_id |-> None, seq |-> None]
NoResult == Result(None, None, FALSE, None, None)

\* SignalEngine configuration (config.py SignalSettings), in the units of the model.
BaseConfig ==
    [big_trade_usd |-> 100, big_volume_1m_usd |-> 150, big_wall_size |-> None,
     cooldown_ms |-> 2, major_change_pct |-> 0, major_change_window_ms |-> 2,
     major_change_min_notional |-> 0, major_change_source |-> "trade",
     major_change_low_price_max |-> 0, major_change_low_price_abs |-> 0,
     major_change_spread_gate_k |-> 0, high_confidence_threshold |-> 0,
     reverse_allow_threshold |-> 0, merge_window_sec |-> 0,
     drop_expired_markets |-> TRUE]
DefaultConfig == BaseConfig

EmptyMap == [x \in {} |-> 0]


\* SignalEngine.__init__
InitEngine(config) ==
    /\ cfg = config
    /\ token_meta = EmptyMap
    /\ windows = EmptyMap
    /\ cooldowns = EmptyMap
    /\ last_price = EmptyMap
    /\ best_quote = EmptyMap
    /\ trade_buckets = EmptyMap
    /\ published = <<>>
    /\ sigCall = [op |-> "none", token_id |-> None]
    /\ lastEmit = EmptyMap
    /\ droppedSince = {}
    /\ reEmitted = {}
    /\ suspended = None

\* ClobWebSocketFeed.__init__
reconnect_backoff_sec == 1
reconnect_max_sec == 4
ping_message == "PING"
pong_message == "pong"

InitFeed ==
    /\ msg_pc = "top"
    /\ backoff = reconnect_backoff_sec
    /\ ping_task = "none"
    /\ close_pc = "idle"
    /\ pending = <<>>
    /\ yielded = None
    /\ wire = <<>>
    /\ sleeping = 0
    /\ failures = 0
    /\ processed = <<>>
    /\ prev_subscribed = {}
    /\ ws_open = FALSE
    /\ stopped = FALSE
    /\ desired_ids = {}
    /\ subscribed_ids = {}
    /\ sent = <<>>
    /\ feedCall = [op |-> "none", token_ids |-> {}, open |-> FALSE, initial |-> FALSE]

\* MultiplexEventSink.__init__ defaults
DefaultMux ==
    [sinks |-> <<"a", "b", "c">>, mode |-> "best_effort", required |-> {},
     routes |-> [x \in {} |-> <<>>]]

NoPublish == [op |-> "none", event_type |-> None, failing |-> {}, targets |-> <<>>]

\* MultiplexEventSink.__init__
InitMux(config) ==
    /\ muxCfg = config
    /\ called = <<>>
    /\ errors = {}
    /\ raised = None
    /\ muxCall = NoPublish

InitAdapters == InitFeed /\ InitMux(DefaultMux)

InitBook ==
    /\ books = [t \in {} |-> NewState]
    /\ lastCall = NoCall
    /\ lastResult = NoResult

\* Nothing has been selected, posted, aggregated, run or sent yet.
InitSelection == selection = [op |-> "none"]
InitWebhook == webhook = [pc |-> "idle"]
InitAggregator == aggregator = [pc |-> "idle"]
InitRunner == runner = [pc |-> "idle"]
InitSending == sending = [pc |-> "idle"]
InitIdle == InitSelection /\ InitWebhook /\ InitAggregator /\ InitRunner /\ InitSending

\* PolymarketComponent.__init__; the clock starts at a time later than the
\* epoch by more than any interval of the configuration.
\* PolymarketComponent.__init__: the fields of the refresh loop
InitRefresh ==
    /\ refresh_pc = "ready"
    /\ markets_by_id = {}
    /\ component_token_meta = {}
    /\ lifecycle_ready = FALSE
    /\ startup_notified = FALSE
    /\ last_refresh_start_ms = None
    /\ unsub_prev_volume = EmptyMap
    /\ unsub_cooldowns = EmptyMap
    /\ refreshLog = <<>>

NoMessage == [kind |-> "none", raised |-> FALSE]

InitComponent ==
    /\ now = StartTick
    /\ resync_on_gap = TRUE
    /\ token_ids = <<>>
    /\ last_resync_ms = 0
    /\ resubscribed = None
    /\ handed = None
    /\ awaiting = {}
    /\ consume_running = TRUE
    /\ consumeCall = NoMessage
    /\ resubscribedAt = <<>>
    /\ InitRefresh

apply_snapshot(snapshot, raw_seq) ==
    /\ books' = RegistryApplySnapshotBooks(books, snapshot, raw_seq)
    /\ lastResult' = RegistryApplySnapshotResult(books, snapshot, raw_seq)
    /\ lastCall' = [op |-> "apply_snapshot", token_id |-> Some(snapshot.token_id),
                    seq |-> _extract_sequence(raw_seq)]

apply_price_change(payload) ==
    /\ books' = RegistryApplyPriceChangeBooks(books, payload)
    /\ lastResult' = RegistryApplyPriceChangeResult(books, payload)
    /\ lastCall' = [op |-> "apply_price_change", token_id |-> payload.token_id,
                    seq |-> _extract_sequence(payload.seq)]

\* Payloads that name a token, and one that names none.
PriceChangePayloads ==
    [token_id : {Some(t) : t \in Tokens}, seq : RawSeqs, changes : RawChangeLists]
        \cup {[token_id |-> None, seq |-> [kind |-> "int", v |-> 1], changes |-> <<>>]}

RegistrySnapshotStep ==
    /\ \E snapshot \in Snapshots, raw_seq \in RawSeqs : apply_snapshot(snapshot, raw_seq)
    /\ UNCHANGED <<consumeVars, sigVars, feedVars, muxVars, refreshVars, extraVars>>

RegistryPriceChangeStep ==
    /\ \E payload \in PriceChangePayloads : apply_price_change(payload)
    /\ UNCHANGED <<consumeVars, sigVars, feedVars, muxVars, refreshVars, extraVars>>

NextBook == RegistrySnapshotStep \/ RegistryPriceChangeStep

Init == InitBook /\ InitIdle /\ InitComponent /\ InitEngine(DefaultConfig) /\ InitAdapters

SpecBook == Init /\ [][NextBook]_vars

(***************************************************************************)
(* component.py: the consume loop's handling of book and price_change      *)
(* messages.  One step handles one message: the registry call, then        *)
(* _handle_resync, then the hand-over to the detector.                     *)
(***************************************************************************)
\* _handle_resync: whether it goes on to call feed.resubscribe.
\* A variant without the minimum interval.
ResyncsUnthrottled(result) ==
    /\ result.resync_needed
    /\ resync_on_gap
    /\ token_ids # <<>>

Resyncs(result) ==
    /\ result.resync_needed
    /\ resync_on_gap
    /\ token_ids # <<>>
    /\ ~(now - last_resync_ms < ResyncMinInterval)

_handle_resync(result) ==
    /\ last_resync_ms' = IF Resyncs(result) THEN now ELSE last_resync_ms
    /\ resubscribed' = IF Resyncs(result) THEN Some(token_ids) ELSE None
    /\ resubscribedAt' = IF ~Resyncs(result) THEN resubscribedAt
                         ELSE IF resubscribedAt = <<>> THEN <<now>>
                         ELSE <<resubscribedAt[Len(resubscribedAt)], now>>

\* The awaited calls of one message that can raise: feed.resubscribe, and the
\* call that publishes to the sink (handle_book, handle_trade,
\* _emit_feed_lifecycle).  A fault names the one that raises when it is reached.
Faults == {"none", "resubscribe", "downstream"}

\* _consume_loop has no handler: what a call raises ends the loop.  A fault
\* is given only to a message whose handling reaches the call it names.
ResubscribeRaises(result, fault) == Resyncs(result) /\ fault = "resubscribe"

\* isinstance(message, BookMessage)
ConsumeBook(message, fault) ==
    LET result == RegistryApplySnapshotResult(books, message.book, message.seq)
        reaches_handle_book == ~ResubscribeRaises(result, fault) /\ ~result.resync_needed
        raises == ResubscribeRaises(result, fault)
                    \/ (reaches_handle_book /\ fault = "downstream")
    IN
    /\ consume_running
    /\ fault # "none" => raises
    /\ apply_snapshot(message.book, message.seq)
    /\ _handle_resync(result)
    /\ handed' = IF reaches_handle_book THEN Some(message.book) ELSE None
    /\ awaiting' = IF result.resync_needed
                   THEN awaiting \cup {message.book.token_id}
                   ELSE awaiting \ {message.book.token_id}
    /\ consume_running' = ~raises
    /\ consumeCall' = [kind |-> "book", raised |-> raises]
    /\ UNCHANGED <<now, resync_on_gap, token_ids, sigVars, feedVars, muxVars, refreshVars, extraVars>>

\* isinstance(message, PriceChangeMessage)
ConsumePriceChange(message, fault) ==
    LET result == RegistryApplyPriceChangeResult(books, message)
        reaches_handle_book == /\ ~ResubscribeRaises(result, fault)
                               /\ result.snapshot # None
                               /\ ~result.resync_needed
        raises == ResubscribeRaises(result, fault)
                    \/ (reaches_handle_book /\ fault = "downstream")
    IN
    /\ consume_running
    /\ fault # "none" => raises
    /\ apply_price_change(message)
    /\ _handle_resync(result)
    /\ handed' = IF reaches_handle_book THEN result.snapshot ELSE None
    /\ awaiting' = IF result.resync_needed
                   THEN awaiting \cup result.token_id
                   ELSE awaiting
    /\ consume_running' = ~raises
    /\ consumeCall' = [kind |-> "price_change", raised |-> raises]
    /\ UNCHANGED <<now, resync_on_gap, token_ids, sigVars, feedVars, muxVars, refreshVars, extraVars>>

\* isinstance(message, TradeMessage) and isinstance(message, MarketLifecycleMessage):
\* detector.handle_trade and _emit_feed_lifecycle publish to the sink.
ConsumeOther(kind, fault) ==
    /\ consume_running
    /\ consume_running' = (fault # "downstream")
    /\ consumeCall' = [kind |-> kind, raised |-> fault = "downstream"]
    /\ lastCall' = NoCall
    /\ lastResult' = NoResult
    /\ resubscribed' = None
    /\ handed' = None
    /\ UNCHANGED <<books, now, resync_on_gap, token_ids, last_resync_ms, awaiting,
                   resubscribedAt, sigVars, feedVars, muxVars, refreshVars, extraVars>>

\* The messages of the consume-loop model: books of at most one bid at price 1
\* and one ask at price 2, and price changes of at most one item.
ConsumeBids == {<<>>, <<[price |-> 1, size |-> 1]>>}
ConsumeAsks == {<<>>, <<[price |-> 2, size |-> 1]>>}
ConsumeChanges ==
    {<<>>, <<[side |-> "BUY", price |-> 1, size |-> 1]>>,
     <<[side |-> "BUY", price |-> 1, size |-> 0]>>,
     <<[side |-> "SELL", price |-> 2, size |-> 1]>>}
BookMessages ==
    [book : [token_id : Tokens, bids : ConsumeBids, asks : ConsumeAsks], seq : RawSeqs]
PriceChangeMessages ==
    [token_id : {Some(t) : t \in Tokens}, seq : RawSeqs, changes : ConsumeChanges]
        \cup {[token_id |-> None, seq |-> [kind |-> "int", v |-> 1], changes |-> <<>>]}

ConsumeBookStep ==
    \E message \in BookMessages, fault \in Faults : ConsumeBook(message, fault)

ConsumePriceChangeStep ==
    \E message \in PriceChangeMessages, fault \in Faults : ConsumePriceChange(message, fault)

ConsumeOtherStep ==
    \E kind \in {"trade", "lifecycle"}, fault \in {"none", "downstream"} :
        ConsumeOther(kind, fault)

\* Time passes between two messages.
ClockTick ==
    /\ now < StartTick + MaxClock
    /\ now' = now + 1
    /\ lastCall' = NoCall
    /\ lastResult' = NoResult
    /\ resubscribed' = None
    /\ handed' = None
    /\ consumeCall' = NoMessage
    /\ UNCHANGED <<books, resync_on_gap, token_ids, last_resync_ms, awaiting,
                   consume_running, resubscribedAt, sigVars, feedVars, muxVars, refreshVars, extraVars>>

\* The configuration and the token set the consume loop runs with.
InitConsume ==
    /\ InitBook
    /\ InitIdle
    /\ now = StartTick
    /\ resync_on_gap \in BOOLEAN
    /\ token_ids \in {<<>>, <<"t1">>}
    /\ last_resync_ms = 0
    /\ resubscribed = None
    /\ handed = None
    /\ awaiting = {}
    /\ consume_running = TRUE
    /\ consumeCall = NoMessage
    /\ resubscribedAt = <<>>
    /\ InitRefresh
    /\ InitEngine(DefaultConfig)
    /\ InitAdapters

NextConsume == ConsumeBookStep \/ ConsumePriceChangeStep \/ ConsumeOtherStep \/ ClockTick

SpecConsume == InitConsume /\ [][NextConsume]_vars

(***************************************************************************)
(* signals/detector.py: SignalEngine.  Prices are in hundredths (0.60 is   *)
(* 60), so that a notional price * size is in hundredths of a dollar, and  *)
(* times are in ticks of 30 s.  A handler runs as one step.                *)
(***************************************************************************)
TradePrices == {30, 60}
TradeSizes == {2}
TradeAges == {0, 3}          \* a trade's ts_ms is now - age
WindowTicks == 2             \* the trade window, 60_000 ms
WindowLens == {0, 1}         \* lengths of a window at which a further trade is taken
MaxMerged == 3               \* total size a merge bucket holds when a further trade arrives

Signals == {"big_trade", "volume_spike_1m", "major_change", "big_wall"}

MergeConfig == [BaseConfig EXCEPT !.merge_window_sec = 1]
WallConfig == [BaseConfig EXCEPT !.big_wall_size = Some(5)]
MajorConfig == [BaseConfig EXCEPT !.major_change_pct = 50, !.major_change_source = "any"]
Configs == {BaseConfig, MergeConfig, WallConfig, MajorConfig}

\* TokenMeta (category, title and topic_key are carried along unread).
MetaA == [token_id |-> "a", market_id |-> "m1", side |-> Some("YES"), end_ts |-> None]
MetaAExpiring == [MetaA EXCEPT !.end_ts = Some(StartTick + 1)]
MetaB == [token_id |-> "b", market_id |-> "m1", side |-> Some("NO"), end_ts |-> None]
RegistryOf(metas) ==
    [t \in {m.token_id : m \in metas} |-> CHOOSE m \in metas : m.token_id = t]
Registries ==
    {RegistryOf({}), RegistryOf({MetaA}), RegistryOf({MetaAExpiring}), RegistryOf({MetaB})}

Trades == [token_id : {"a"}, price : TradePrices, size : TradeSizes, age : TradeAges]
SigBooks ==
    [token_id : {"a"},
     bids : {<<[price |-> 30, size |-> 1]>>, <<[price |-> 60, size |-> 5]>>},
     asks : {<<[price |-> 60, size |-> 1]>>}]
        \cup {[token_id |-> "a", bids |-> <<[price |-> 30, size |-> 1]>>, asks |-> <<>>]}

PutKey(f, k, v) == [x \in DOMAIN f \cup {k} |-> IF x = k THEN v ELSE f[x]]
DropKey(f, k) == [x \in DOMAIN f \ {k} |-> f[x]]
Restrict(f, S) == [x \in DOMAIN f \cap S |-> f[x]]
Abs(x) == IF x < 0 THEN 0 - x ELSE x

\* TradeWindow
EmptyWindow == [entries |-> <<>>, total |-> 0]

WindowAdd(win, ts_ms, notional) ==
    [entries |-> Append(win.entries, <<ts_ms, notional>>), total |-> win.total + notional]

RECURSIVE WindowTrim(_, _)
WindowTrim(win, cutoff_ms) ==
    IF win.entries # <<>> /\ Head(win.entries)[1] < cutoff_ms
    THEN WindowTrim([entries |-> Tail(win.entries),
                     total |-> win.total - Head(win.entries)[2]], cutoff_ms)
    ELSE win

_bucket_key(meta) == <<meta.market_id, IF meta.side = None THEN "N/A" ELSE Val(meta.side)>>

\* A variant of _is_market_expired that leaves the boundary out.
IsMarketExpiredAfterOnly(meta, now_ms) ==
    IF ~cfg.drop_expired_markets THEN FALSE
    ELSE IF meta.end_ts = None THEN FALSE
    ELSE now_ms > Val(meta.end_ts)

_is_market_expired(meta, now_ms) ==
    IF ~cfg.drop_expired_markets THEN FALSE
    ELSE IF meta.end_ts = None THEN FALSE
    ELSE now_ms >= Val(meta.end_ts)

_is_high_confidence_market(price) ==
    IF cfg.high_confidence_threshold <= 0 THEN FALSE
    ELSE IF price < 0 \/ price > 100 THEN FALSE
    ELSE Max({price, 100 - price}) >= cfg.high_confidence_threshold

\* A variant of _is_reverse_allow_price that leaves the boundary out.
IsReverseAllowPriceBelowOnly(price) ==
    IF cfg.reverse_allow_threshold <= 0 THEN FALSE
    ELSE IF price < 0 \/ price > 100 THEN FALSE
    ELSE price < cfg.reverse_allow_threshold

_is_reverse_allow_price(price) ==
    IF cfg.reverse_allow_threshold <= 0 THEN FALSE
    ELSE IF price < 0 \/ price > 100 THEN FALSE
    ELSE price <= cfg.reverse_allow_threshold

\* A price as a ratio, so that the average price of a merged event is exact.
Ratio(num, den) == [num |-> num, den |-> den]

BigTradePayload(notional, price, size, vol_1m) ==
    [signal |-> "big_trade", notional |-> notional, price |-> price, size |-> size,
     vol_1m |-> vol_1m]
VolumeSpikePayload(vol_1m, price, size) ==
    [signal |-> "volume_spike_1m", vol_1m |-> vol_1m, price |-> price, size |-> size]
BigWallPayload(max_bid, max_ask, threshold) ==
    [signal |-> "big_wall", max_bid |-> max_bid, max_ask |-> max_ask,
     threshold |-> threshold]
MajorChangePayload(direction, price, prev_price, notional, source) ==
    [signal |-> "major_change", direction |-> direction, price |-> price,
     prev_price |-> prev_price, notional |-> notional, source |-> source]

DomainEvent(meta, payload, event_type) ==
    [ts_ms |-> now, event_type |-> event_type, market_id |-> meta.market_id,
     token_id |-> meta.token_id, side |-> meta.side, payload |-> payload]

\* The engine's maps while a handler runs; pub collects the events published.
EngineState ==
    [w |-> windows, c |-> cooldowns, lp |-> last_price, bq |-> best_quote,
     tb |-> trade_buckets, pub |-> <<>>]

\* A variant that publishes without consulting the cooldown map.
_emit_signal_no_cooldown(e, meta, payload, event_type) ==
    [e EXCEPT !.c = PutKey(e.c, <<meta.token_id, payload.signal>>, now),
              !.pub = Append(e.pub, DomainEvent(meta, payload, event_type))]

_emit_signal(e, meta, payload, event_type) ==
    LET cooldown_key == <<meta.token_id, payload.signal>>
        last_ts == IF cooldown_key \in DOMAIN e.c THEN e.c[cooldown_key] ELSE 0
    IN IF now - last_ts < cfg.cooldown_ms THEN e
       ELSE [e EXCEPT !.c = PutKey(e.c, cooldown_key, now),
                      !.pub = Append(e.pub, DomainEvent(meta, payload, event_type))]

\* A variant of _resolve_spread that does not look at the cached best quote.
ResolveSpreadGivenOnly(e, token_id, best_bid, best_ask) ==
    IF best_bid # None /\ best_ask # None
    THEN Some(Max({0, Val(best_ask) - Val(best_bid)}))
    ELSE None

_resolve_spread(e, token_id, best_bid, best_ask) ==
    IF best_bid # None /\ best_ask # None
    THEN Some(Max({0, Val(best_ask) - Val(best_bid)}))
    ELSE IF token_id \notin DOMAIN e.bq THEN None
    ELSE Some(Max({0, e.bq[token_id][2] - e.bq[token_id][1]}))

\* A variant of _use_low_price_abs that never chooses the absolute threshold.
NeverLowPriceAbs(prev_price, price) == FALSE

_use_low_price_abs(prev_price, price) ==
    IF cfg.major_change_low_price_abs <= 0 THEN FALSE
    ELSE IF cfg.major_change_low_price_max <= 0 THEN FALSE
    ELSE Min({prev_price, price}) <= cfg.major_change_low_price_max

\* The checks of _maybe_emit_major_change after the previous pair was read:
\* TRUE when one of them returns before _emit_signal.
MajorChangeStops(e, meta, price, ts_ms, notional, best_bid, best_ask, prev_price, prev_ts) ==
    LET abs_delta == Abs(price - prev_price)
        spread == _resolve_spread(e, meta.token_id, best_bid, best_ask)
    IN \/ prev_price <= 0
       \/ ts_ms - prev_ts > cfg.major_change_window_ms
       \/ /\ cfg.major_change_spread_gate_k > 0
          /\ spread # None
          /\ Val(spread) > 0
          /\ abs_delta <= cfg.major_change_spread_gate_k * Val(spread)
       \/ IF _use_low_price_abs(prev_price, price)
          THEN abs_delta < cfg.major_change_low_price_abs
          ELSE abs_delta * 100 < cfg.major_change_pct * prev_price
       \/ /\ cfg.major_change_min_notional > 0
          /\ (notional = None \/ Val(notional) < cfg.major_change_min_notional)

\* A variant of _maybe_emit_major_change that keeps the stored pair when it
\* publishes nothing, so that moves add up against an old reference.
MajorChangeKeepsReference(e, meta, price, ts_ms, notional, source, best_bid, best_ask) ==
    IF cfg.major_change_pct <= 0 THEN e
    ELSE LET e1 == [e EXCEPT !.lp = PutKey(e.lp, meta.token_id, <<price, ts_ms>>)] IN
         IF meta.token_id \notin DOMAIN e.lp THEN e1
         ELSE IF MajorChangeStops(e, meta, price, ts_ms, notional, best_bid, best_ask,
                                  e.lp[meta.token_id][1], e.lp[meta.token_id][2])
         THEN e
         ELSE _emit_signal(e1, meta,
                MajorChangePayload(IF price - e.lp[meta.token_id][1] > 0 THEN "up" ELSE "down",
                                   price, e.lp[meta.token_id][1],
                                   IF notional = None THEN 0 ELSE Val(notional), source),
                "TradeSignal")

_maybe_emit_major_change(e, meta, price, ts_ms, notional, source, best_bid, best_ask) ==
    IF cfg.major_change_pct <= 0 THEN e
    ELSE LET e1 == [e EXCEPT !.lp = PutKey(e.lp, meta.token_id, <<price, ts_ms>>)] IN
         IF meta.token_id \notin DOMAIN e.lp THEN e1
         ELSE LET prev_price == e.lp[meta.token_id][1]
                  prev_ts == e.lp[meta.token_id][2]
              IN IF MajorChangeStops(e, meta, price, ts_ms, notional, best_bid, best_ask,
                                     prev_price, prev_ts)
                 THEN e1
                 ELSE _emit_signal(e1, meta,
                        MajorChangePayload(IF price - prev_price > 0 THEN "up" ELSE "down",
                                           price, prev_price,
                                           IF notional = None THEN 0 ELSE Val(notional),
                                           source),
                        "TradeSignal")

NewBucket(meta) ==
    [market_id |-> meta.market_id, token_id |-> meta.token_id, side |-> meta.side,
     end_ts |-> meta.end_ts, total_notional |-> 0, total_size |-> 0,
     last_price |-> 0, last_size |-> 0, max_vol_1m |-> None,
     has_big_trade |-> FALSE, has_volume_spike |-> FALSE,
     due |-> now + cfg.merge_window_sec]   \* the flush task, asleep until then

\* A variant of _enqueue_trade_bucket that starts a new bucket at every deposit.
EnqueueTradeBucketAfresh(e, meta, trade, notional, vol_1m, is_big_trade, is_volume_spike) ==
    LET fresh ==
            [NewBucket(meta) EXCEPT
                !.last_price = trade.price,
                !.last_size = trade.size,
                !.has_big_trade = is_big_trade,
                !.total_notional = IF is_big_trade THEN notional ELSE 0,
                !.total_size = IF is_big_trade THEN trade.size ELSE 0,
                !.has_volume_spike = is_volume_spike,
                !.max_vol_1m = IF is_volume_spike THEN Some(vol_1m) ELSE None]
    IN [e EXCEPT !.tb = PutKey(e.tb, _bucket_key(meta), fresh)]

_enqueue_trade_bucket(e, meta, trade, notional, vol_1m, is_big_trade, is_volume_spike) ==
    LET key == _bucket_key(meta)
        bucket == IF key \in DOMAIN e.tb THEN e.tb[key] ELSE NewBucket(meta)
        updated ==
            [bucket EXCEPT
                !.token_id = meta.token_id,
                !.side = meta.side,
                !.end_ts = meta.end_ts,
                !.last_price = trade.price,
                !.last_size = trade.size,
                !.has_big_trade = bucket.has_big_trade \/ is_big_trade,
                !.total_notional = IF is_big_trade THEN @ + notional ELSE @,
                !.total_size = IF is_big_trade THEN @ + trade.size ELSE @,
                !.has_volume_spike = bucket.has_volume_spike \/ is_volume_spike,
                !.max_vol_1m = IF ~is_volume_spike THEN @
                               ELSE IF @ = None THEN Some(vol_1m)
                               ELSE Some(Max({Val(@), vol_1m}))]
    IN [e EXCEPT !.tb = PutKey(e.tb, key, updated)]

\* A variant of is_big_trade that leaves the boundary out.
IsBigTradeAboveOnly(notional) == notional > cfg.big_trade_usd

is_big_trade(notional) == notional >= cfg.big_trade_usd

is_volume_spike(total) == total >= cfg.big_volume_1m_usd

\* A variant of the test for the single merged event that never merges.
NeverBoth(big, spike) == FALSE

\* if is_big_trade and is_volume_spike
BothFlags(big, spike) == big /\ spike

\* handle_trade from its flags on: the gating, the merge bucket, the emissions.
\* total is window.total of the window the trade went into.
EmitTradeSignals(e2, meta, trade, notional, total) ==
    LET big == is_big_trade(notional)
        spike == is_volume_spike(total)
        price == Ratio(trade.price, 1)
    IN IF /\ (big \/ spike)
          /\ _is_high_confidence_market(trade.price)
          /\ ~_is_reverse_allow_price(trade.price)
       THEN e2
       ELSE IF cfg.merge_window_sec > 0 /\ (big \/ spike)
       THEN _enqueue_trade_bucket(e2, meta, trade, notional, total, big, spike)
       ELSE IF BothFlags(big, spike)
       THEN _emit_signal(e2, meta,
                BigTradePayload(notional, price, trade.size, Some(total)),
                "TradeSignal")
       ELSE LET e3 == IF big
                      THEN _emit_signal(e2, meta,
                              BigTradePayload(notional, price, trade.size, None),
                              "TradeSignal")
                      ELSE e2
            IN IF spike
               THEN _emit_signal(e3, meta,
                        VolumeSpikePayload(total, price, trade.size), "TradeSignal")
               ELSE e3

\* handle_trade of a registered, unexpired token up to its flags: the window
\* and the major-change evaluation.
RecordTrade(e, meta, trade) ==
    LET notional == trade.price * trade.size
        before == IF trade.token_id \in DOMAIN e.w THEN e.w[trade.token_id] ELSE EmptyWindow
        window == WindowTrim(WindowAdd(before, trade.ts_ms, notional), now - WindowTicks)
        e1 == [e EXCEPT !.w = PutKey(e.w, trade.token_id, window)]
    IN IF cfg.major_change_source \in {"trade", "any"}
       THEN _maybe_emit_major_change(e1, meta, trade.price, trade.ts_ms,
                                     Some(notional), "trade", None, None)
       ELSE e1

\* SignalEngine.handle_trade; trade.ts_ms is the trade's own timestamp.
HandleTrade(e, trade) ==
    IF trade.token_id \notin DOMAIN token_meta THEN e
    ELSE LET meta == token_meta[trade.token_id] IN
    IF _is_market_expired(meta, now) THEN e
    ELSE LET e2 == RecordTrade(e, meta, trade) IN
         EmitTradeSignals(e2, meta, trade, trade.price * trade.size,
                          e2.w[trade.token_id].total)

\* SignalEngine.handle_book
HandleBook(e, book) ==
    IF book.token_id \notin DOMAIN token_meta THEN e
    ELSE LET meta == token_meta[book.token_id] IN
    IF _is_market_expired(meta, now) THEN e
    ELSE
    LET bid_prices == {book.bids[i].price : i \in DOMAIN book.bids}
        ask_prices == {book.asks[i].price : i \in DOMAIN book.asks}
        best_bid == IF bid_prices = {} THEN None ELSE Some(Max(bid_prices))
        best_ask == IF ask_prices = {} THEN None ELSE Some(Min(ask_prices))
        both == best_bid # None /\ best_ask # None
        e1 == IF both
              THEN [e EXCEPT !.bq = PutKey(e.bq, book.token_id,
                                           <<Val(best_bid), Val(best_ask)>>)]
              ELSE [e EXCEPT !.bq = DropKey(e.bq, book.token_id)]
        e2 == IF cfg.major_change_source \in {"book", "any"} /\ both
              THEN _maybe_emit_major_change(e1, meta,
                        (Val(best_bid) + Val(best_ask)) \div 2, book.ts_ms, None, "book",
                        best_bid, best_ask)
              ELSE e1
        max_bid == Max({0} \cup {book.bids[i].size : i \in DOMAIN book.bids})
        max_ask == Max({0} \cup {book.asks[i].size : i \in DOMAIN book.asks})
    IN IF cfg.big_wall_size = None THEN e2
       ELSE IF Max({max_bid, max_ask}) < Val(cfg.big_wall_size) THEN e2
       ELSE _emit_signal(e2, meta,
                BigWallPayload(max_bid, max_ask, Val(cfg.big_wall_size)), "BookSignal")

\* SignalEngine._flush_trade_bucket once its sleep is over
FlushTradeBucket(e, key) ==
    LET bucket == e.tb[key]
        e1 == [e EXCEPT !.tb = DropKey(e.tb, key)]
    IN IF bucket.token_id \notin DOMAIN token_meta THEN e1
       ELSE LET meta == token_meta[bucket.token_id] IN
       IF _is_market_expired(meta, now) THEN e1
       ELSE IF bucket.has_big_trade
       THEN _emit_signal(e1, meta,
                BigTradePayload(bucket.total_notional,
                    IF bucket.total_size > 0
                    THEN Ratio(bucket.total_notional, bucket.total_size)
                    ELSE Ratio(bucket.last_price, 1),
                    IF bucket.total_size # 0 THEN bucket.total_size ELSE bucket.last_size,
                    bucket.max_vol_1m),
                "TradeSignal")
       ELSE _emit_signal(e1, meta,
                VolumeSpikePayload(IF bucket.max_vol_1m = None THEN 0
                                   ELSE Val(bucket.max_vol_1m),
                                   Ratio(bucket.last_price, 1), bucket.last_size),
                "TradeSignal")

\* The maps a handler leaves, and the record of what it published.
Commit(e) ==
    LET keys == {<<e.pub[i].token_id, e.pub[i].payload.signal>> : i \in DOMAIN e.pub} IN
    /\ windows' = e.w
    /\ cooldowns' = e.c
    /\ last_price' = e.lp
    /\ best_quote' = e.bq
    /\ trade_buckets' = e.tb
    /\ published' = e.pub
    /\ lastEmit' = [k \in DOMAIN lastEmit \cup keys |-> IF k \in keys THEN now ELSE lastEmit[k]]
    /\ reEmitted' = {k \in keys : k \in DOMAIN lastEmit /\ k \notin droppedSince}
    /\ droppedSince' = droppedSince \ keys

handle_trade(trade) ==
    /\ trade.token_id \in DOMAIN windows =>
            Len(windows[trade.token_id].entries) \in WindowLens
    /\ \A key \in DOMAIN trade_buckets : trade_buckets[key].total_size < MaxMerged
    /\ Commit(HandleTrade(EngineState, [trade EXCEPT !.age = 0] @@ [ts_ms |-> now - trade.age]))
    /\ sigCall' = [op |-> "handle_trade", token_id |-> Some(trade.token_id),
                    price |-> trade.price, size |-> trade.size]
    /\ UNCHANGED <<cfg, token_meta>>

handle_book(book) ==
    /\ Commit(HandleBook(EngineState, book @@ [ts_ms |-> now]))
    /\ sigCall' = [op |-> "handle_book", token_id |-> Some(book.token_id)]
    /\ UNCHANGED <<cfg, token_meta>>

_flush_trade_bucket(key) ==
    /\ key \in DOMAIN trade_buckets
    /\ now >= trade_buckets[key].due
    /\ Commit(FlushTradeBucket(EngineState, key))
    /\ sigCall' = [op |-> "_flush_trade_bucket", token_id |-> Some(trade_buckets[key].token_id)]
    /\ UNCHANGED <<cfg, token_meta>>

\* handle_trade up to `await self._sink.publish(event)` of its major_change,
\* where the consume task is suspended and other tasks run.
handle_trade_until_publish(trade) ==
    /\ suspended = None
    /\ trade.token_id \in DOMAIN token_meta
    /\ ~_is_market_expired(token_meta[trade.token_id], now)
    /\ trade.token_id \in DOMAIN windows =>
            Len(windows[trade.token_id].entries) \in WindowLens
    /\ LET timed == [trade EXCEPT !.age = 0] @@ [ts_ms |-> now - trade.age]
           meta == token_meta[trade.token_id]
       IN \E e2 \in {RecordTrade(EngineState, meta, timed)} :
             /\ Len(e2.pub) = 1
             /\ Commit(e2)
             /\ suspended' = Some([trade |-> timed, meta |-> meta,
                                   total |-> e2.w[trade.token_id].total])
    /\ sigCall' = [op |-> "handle_trade_until_publish", token_id |-> Some(trade.token_id)]
    /\ UNCHANGED <<cfg, token_meta>>

\* The publish returns and handle_trade goes on with the meta and the window it
\* took before.
handle_trade_resumed ==
    /\ suspended # None
    /\ \A key \in DOMAIN trade_buckets : trade_buckets[key].total_size < MaxMerged
    /\ LET s == Val(suspended) IN
       Commit(EmitTradeSignals(EngineState, s.meta, s.trade,
                               s.trade.price * s.trade.size, s.total))
    /\ suspended' = None
    /\ sigCall' = [op |-> "handle_trade_resumed",
                    token_id |-> Some(Val(suspended).trade.token_id)]
    /\ UNCHANGED <<cfg, token_meta>>

\* A variant of update_registry that leaves the merge buckets alone.
UpdateRegistryKeepsBuckets(new_meta) ==
    /\ token_meta' = new_meta
    /\ windows' = Restrict(windows, DOMAIN new_meta)
    /\ cooldowns' = Restrict(cooldowns, {k \in DOMAIN cooldowns : k[1] \in DOMAIN new_meta})
    /\ last_price' = Restrict(last_price, DOMAIN new_meta)
    /\ best_quote' = Restrict(best_quote, DOMAIN new_meta)
    /\ trade_buckets' = trade_buckets
    /\ published' = <<>>
    /\ sigCall' = [op |-> "update_registry", token_id |-> None, cancelled |-> {}]
    /\ droppedSince' = droppedSince \cup
          {k \in DOMAIN lastEmit : k[1] \in DOMAIN token_meta /\ k[1] \notin DOMAIN new_meta}
    /\ reEmitted' = {}
    /\ UNCHANGED <<cfg, lastEmit>>

\* SignalEngine.update_registry; a dropped bucket's flush task is cancelled with it.
update_registry(new_meta) ==
    LET active_markets == {new_meta[t].market_id : t \in DOMAIN new_meta} IN
    /\ token_meta' = new_meta
    /\ windows' = Restrict(windows, DOMAIN new_meta)
    /\ cooldowns' = Restrict(cooldowns, {k \in DOMAIN cooldowns : k[1] \in DOMAIN new_meta})
    /\ last_price' = Restrict(last_price, DOMAIN new_meta)
    /\ best_quote' = Restrict(best_quote, DOMAIN new_meta)
    /\ trade_buckets' =
          Restrict(trade_buckets, {k \in DOMAIN trade_buckets : k[1] \in active_markets})
    /\ published' = <<>>
    /\ sigCall' = [op |-> "update_registry", token_id |-> None,
                    cancelled |-> {k \in DOMAIN trade_buckets : k[1] \notin active_markets}]
    /\ droppedSince' = droppedSince \cup
          {k \in DOMAIN lastEmit : k[1] \in DOMAIN token_meta /\ k[1] \notin DOMAIN new_meta}
    /\ reEmitted' = {}
    /\ UNCHANGED <<cfg, lastEmit>>

otherThanEngine == <<suspended, books, lastCall, lastResult, resync_on_gap, token_ids,
                     last_resync_ms, resubscribed, handed, awaiting, consume_running,
                     consumeCall, resubscribedAt, feedVars, muxVars, refreshVars, extraVars>>

TradeStep == (\E trade \in Trades : handle_trade(trade)) /\ UNCHANGED <<now, otherThanEngine>>

BookStep == (\E book \in SigBooks : handle_book(book)) /\ UNCHANGED <<now, otherThanEngine>>

FlushStep ==
    /\ \E key \in DOMAIN trade_buckets : _flush_trade_bucket(key)
    /\ UNCHANGED <<now, otherThanEngine>>

RegistryStep ==
    /\ \E new_meta \in Registries : update_registry(new_meta)
    /\ UNCHANGED <<now, otherThanEngine>>

\* Time passes between two handlers.
EngineTick ==
    /\ now < StartTick + MaxClock
    /\ now' = now + 1
    /\ published' = <<>>
    /\ sigCall' = [op |-> "none", token_id |-> None]
    /\ reEmitted' = {}
    /\ UNCHANGED <<cfg, token_meta, windows, cooldowns, last_price, best_quote,
                   trade_buckets, lastEmit, droppedSince, otherThanEngine>>

InitSignal ==
    /\ InitBook
    /\ InitIdle
    /\ InitComponent
    /\ \E config \in Configs : InitEngine(config)
    /\ InitAdapters

NextSignal == TradeStep \/ BookStep \/ FlushStep \/ RegistryStep \/ EngineTick

SpecSignal == InitSignal /\ [][NextSignal]_vars

(***************************************************************************)
(* handle_trade at the thresholds: trades of notional 98, 100 and 120      *)
(* against big_trade_usd = 100 and big_volume_1m_usd = 150, with and       *)
(* without cooldown, high-confidence gating and major-change detection.    *)
(***************************************************************************)
ZeroCooldownConfig == [BaseConfig EXCEPT !.cooldown_ms = 0]
GatedConfig == [ZeroCooldownConfig EXCEPT !.high_confidence_threshold = 55]
MajorZeroCooldownConfig == [ZeroCooldownConfig EXCEPT !.major_change_pct = 20]
ReverseAllowConfig ==
    [ZeroCooldownConfig EXCEPT !.high_confidence_threshold = 51, !.reverse_allow_threshold = 49]
ReverseAllowMergeConfig == [ReverseAllowConfig EXCEPT !.merge_window_sec = 1]
TradeConfigs == {BaseConfig, ZeroCooldownConfig, GatedConfig, MajorZeroCooldownConfig,
                 ReverseAllowConfig, ReverseAllowMergeConfig}

ThresholdTrades == [token_id : {"a"}, price : {49, 50, 60}, size : {2}, age : {0}]

ThresholdTradeStep ==
    (\E trade \in ThresholdTrades : handle_trade(trade)) /\ UNCHANGED <<now, otherThanEngine>>

InitTrade ==
    /\ InitBook
    /\ InitIdle
    /\ InitComponent
    /\ \E config \in TradeConfigs : InitEngine(config)
    /\ InitAdapters

NextTrade == ThresholdTradeStep \/ FlushStep \/ RegistryStep \/ EngineTick

SpecTrade == InitTrade /\ [][NextTrade]_vars

(***************************************************************************)
(* The consume task and the refresh task: handle_trade may be suspended in *)
(* the publish of its major_change while update_registry, a flush or the   *)
(* clock goes on; trades are consumed one after the other.                 *)
(***************************************************************************)
MajorMergeConfig == [MajorConfig EXCEPT !.merge_window_sec = 1]
SuspendConfigs == {MajorConfig, MajorMergeConfig}
SuspendTrades == [token_id : {"a"}, price : TradePrices, size : TradeSizes, age : {0}]

UntilPublishStep ==
    /\ \E trade \in SuspendTrades : handle_trade_until_publish(trade)
    /\ UNCHANGED <<now, books, lastCall, lastResult, resync_on_gap, token_ids,
                   last_resync_ms, resubscribed, handed, awaiting, consume_running,
                   consumeCall, resubscribedAt, feedVars, muxVars, refreshVars, extraVars>>

ResumedStep ==
    /\ handle_trade_resumed
    /\ UNCHANGED <<now, books, lastCall, lastResult, resync_on_gap, token_ids,
                   last_resync_ms, resubscribed, handed, awaiting, consume_running,
                   consumeCall, resubscribedAt, feedVars, muxVars, refreshVars, extraVars>>

\* The publish returned without another task running in between.
NextTradeStep ==
    /\ suspended = None
    /\ \E trade \in SuspendTrades : handle_trade(trade)
    /\ UNCHANGED <<now, otherThanEngine>>

InitSuspend ==
    /\ InitBook
    /\ InitIdle
    /\ InitComponent
    /\ \E config \in SuspendConfigs : InitEngine(config)
    /\ InitAdapters

NextSuspend ==
    \/ UntilPublishStep
    \/ ResumedStep
    \/ NextTradeStep
    \/ FlushStep
    \/ RegistryStep
    \/ EngineTick

SpecSuspend == InitSuspend /\ [][NextSuspend]_vars

(***************************************************************************)
(* _maybe_emit_major_change at its thresholds: observations at 0.20, 0.24, *)
(* 0.25 and 0.30 from trades and from book mids, against major_change_pct  *)
(* = 20 or 30, the low-price regime (low_price_max 0.24, low_price_abs     *)
(* 0.05) and the spread gate (k = 1), with a window of one tick.           *)
(***************************************************************************)
MajorPctConfig ==
    [BaseConfig EXCEPT !.cooldown_ms = 0, !.major_change_pct = 20,
                       !.major_change_window_ms = 1, !.major_change_source = "any",
                       !.big_trade_usd = 1000, !.big_volume_1m_usd = 1000]
LowPriceConfig ==
    [MajorPctConfig EXCEPT !.major_change_low_price_max = 24, !.major_change_low_price_abs = 5]
LowPriceHighPctConfig == [LowPriceConfig EXCEPT !.major_change_pct = 30]
SpreadGateConfig == [MajorPctConfig EXCEPT !.major_change_spread_gate_k = 1]
MajorConfigs == {MajorPctConfig, LowPriceConfig, LowPriceHighPctConfig, SpreadGateConfig}

MajorTrades == [token_id : {"a"}, price : {20, 24, 25, 30}, size : {2}, age : {0}]

OneLevel(price) == <<[price |-> price, size |-> 1]>>
MajorBooks ==
    {[token_id |-> "a", bids |-> OneLevel(20), asks |-> OneLevel(30)],
     [token_id |-> "a", bids |-> OneLevel(28), asks |-> OneLevel(32)],
     [token_id |-> "a", bids |-> OneLevel(24), asks |-> OneLevel(24)],
     [token_id |-> "a", bids |-> OneLevel(20), asks |-> <<>>]}

MajorTradeStep ==
    (\E trade \in MajorTrades : handle_trade(trade)) /\ UNCHANGED <<now, otherThanEngine>>

MajorBookStep ==
    (\E book \in MajorBooks : handle_book(book)) /\ UNCHANGED <<now, otherThanEngine>>

InitMajor ==
    /\ InitBook
    /\ InitIdle
    /\ InitComponent
    /\ \E config \in MajorConfigs : InitEngine(config)
    /\ InitAdapters

NextMajor == MajorTradeStep \/ MajorBookStep \/ RegistryStep \/ EngineTick

SpecMajor == InitMajor /\ [][NextMajor]_vars

(***************************************************************************)
(* adapters/clob_ws.py: the subscription side of ClobWebSocketFeed.  A     *)
(* token id i stands for the text "token-00i" of nine bytes; a frame is    *)
(* the compact JSON text orjson.dumps makes of the payload.                *)
(***************************************************************************)
channel == "market"
max_frame_bytes == 200       \* the limit the callers configure

Ids(lo, hi) == lo..hi
TokenIdSets == {{}, Ids(0, 2), Ids(0, 8), Ids(0, 9), Ids(3, 11), Ids(0, 11)}

IdBytes == Len("token-000")

\* Bytes of a JSON array body of n quoted ids separated by commas.
ListBytes(ids) ==
    IF ids = {} THEN 0
    ELSE Cardinality(ids) * (IdBytes + 2) + (Cardinality(ids) - 1)

InitialFrame(ids) == [type |-> Some(channel), operation |-> None, assets_ids |-> ids]
OperationFrame(operation, ids) ==
    [type |-> None, operation |-> Some(operation), assets_ids |-> ids]

\* len(orjson.dumps(payload)), custom_feature_enabled and initial_dump being true
FrameBytes(frame) ==
    IF frame.operation = None
    THEN Len("{\"type\":\"") + Len(Val(frame.type)) + Len("\",\"assets_ids\":[")
         + ListBytes(frame.assets_ids)
         + Len("],\"custom_feature_enabled\":true,\"initial_dump\":true}")
    ELSE Len("{\"assets_ids\":[") + ListBytes(frame.assets_ids)
         + Len("],\"operation\":\"") + Len(Val(frame.operation))
         + Len("\",\"custom_feature_enabled\":true}")

\* The frames _send_initial_subscription puts on the socket.
_send_initial_subscription(ids) ==
    IF ids = {} THEN <<>> ELSE <<InitialFrame(ids)>>

\* The frames _send_operation puts on the socket.
_send_operation(operation, ids) ==
    IF ids = {} THEN <<>> ELSE <<OperationFrame(operation, ids)>>

\* _apply_subscription_changes without its unsubscribe operation
ApplySubscriptionChangesAddOnly(desired, subscribed, initial) ==
    IF initial \/ subscribed = {}
    THEN [sent |-> _send_initial_subscription(desired), subscribed |-> desired]
    ELSE [sent |-> _send_operation("subscribe", desired \ subscribed),
          subscribed |-> subscribed \cup desired]

\* _apply_subscription_changes on an open connection
_apply_subscription_changes(desired, subscribed, initial) ==
    IF initial \/ subscribed = {}
    THEN [sent |-> _send_initial_subscription(desired), subscribed |-> desired]
    ELSE [sent |-> _send_operation("subscribe", desired \ subscribed)
                   \o _send_operation("unsubscribe", subscribed \ desired),
          subscribed |-> (subscribed \cup (desired \ subscribed)) \ (subscribed \ desired)]

subscribe(ids) ==
    /\ desired_ids' = ids
    /\ feedCall' = [op |-> "subscribe", token_ids |-> ids, open |-> ws_open,
                    initial |-> subscribed_ids = {}]
    /\ IF ~ws_open
       THEN sent' = <<>> /\ UNCHANGED subscribed_ids
       ELSE LET r == _apply_subscription_changes(ids, subscribed_ids, FALSE) IN
            sent' = r.sent /\ subscribed_ids' = r.subscribed
    /\ UNCHANGED <<ws_open, stopped>>

resubscribe(ids) ==
    /\ desired_ids' = ids
    /\ feedCall' = [op |-> "resubscribe", token_ids |-> ids, open |-> ws_open,
                    initial |-> TRUE]
    /\ IF ~ws_open
       THEN sent' = <<>> /\ UNCHANGED subscribed_ids
       ELSE sent' = _send_initial_subscription(ids) /\ subscribed_ids' = ids
    /\ UNCHANGED <<ws_open, stopped>>

\* messages(): connect() and _ensure_subscription() at the top of the loop
connect ==
    /\ ~stopped
    /\ desired_ids # {}
    /\ ~ws_open
    /\ ws_open' = TRUE
    /\ sent' = _apply_subscription_changes(desired_ids, {}, TRUE).sent
    /\ subscribed_ids' = desired_ids
    /\ feedCall' = [op |-> "connect", token_ids |-> desired_ids, open |-> FALSE,
                    initial |-> TRUE]
    /\ UNCHANGED <<stopped, desired_ids>>

\* The server or the network ends the connection.
ConnectionLost ==
    /\ ws_open
    /\ ws_open' = FALSE
    /\ sent' = <<>>
    /\ feedCall' = [op |-> "lost", token_ids |-> {}, open |-> TRUE, initial |-> FALSE]
    /\ UNCHANGED <<stopped, desired_ids, subscribed_ids>>

close ==
    /\ stopped' = TRUE
    /\ ws_open' = FALSE
    /\ sent' = <<>>
    /\ feedCall' = [op |-> "close", token_ids |-> {}, open |-> ws_open, initial |-> FALSE]
    /\ UNCHANGED <<desired_ids, subscribed_ids>>

otherThanFeed == <<bookVars, consumeVars, sigVars, muxVars, refreshVars, extraVars, msgVars>>

SubscribeStep == (\E ids \in TokenIdSets : subscribe(ids)) /\ UNCHANGED otherThanFeed

ResubscribeStep == (\E ids \in TokenIdSets : resubscribe(ids)) /\ UNCHANGED otherThanFeed

ConnectStep == connect /\ UNCHANGED otherThanFeed

ConnectionLostStep == ConnectionLost /\ UNCHANGED otherThanFeed

CloseStep == close /\ UNCHANGED otherThanFeed

InitFeedSpec ==
    /\ InitBook
    /\ InitIdle
    /\ InitComponent
    /\ InitEngine(DefaultConfig)
    /\ InitAdapters

NextFeed ==
    SubscribeStep \/ ResubscribeStep \/ ConnectStep \/ ConnectionLostStep \/ CloseStep

SpecFeed == InitFeedSpec /\ [][NextFeed]_vars

(***************************************************************************)
(* adapters/clob_ws.py: messages() as a process, with close() and          *)
(* subscribe() of other tasks running between its suspension points.       *)
(* msg_pc is where messages() is suspended: "top" before the loop test,    *)
(* "sleep_empty" and "backoff" in asyncio.sleep, "connecting" in           *)
(* websockets.connect, "receiving" waiting for the next frame of async     *)
(* for, "yielded" at a yield, "done" after the loop.                       *)
(***************************************************************************)
\* str.lower and str.strip on the texts that occur
Lower(s) == CASE s = "PING" -> "ping" [] s = "Ping" -> "ping" [] s = "Pong" -> "pong"
              [] OTHER -> s
Strip(s) == CASE s = " pong " -> "pong" [] s = "PING\n" -> "PING" [] OTHER -> s

\* An item of a decoded frame: a dict with its type and event_type entries,
\* or something that is not a dict.
Dict(type, event_type) ==
    [isdict |-> TRUE, type |-> type, event_type |-> event_type, text |-> ""]
NonDict == [isdict |-> FALSE, type |-> None, event_type |-> None, text |-> ""]
TypeValues == {None, Some("PING"), Some("pong"), Some("trade"), Some("")}
EventTypeValues == {None, Some("ping"), Some("Pong"), Some("book")}
Dicts == {Dict(t, e) : t \in TypeValues, e \in EventTypeValues}
Arrays == {<<>>,
           <<Dict(None, Some("ping")), Dict(None, Some("book"))>>,
           <<Dict(None, Some("book")), Dict(Some("PING"), None)>>,
           <<Dict(Some("pong"), None), NonDict>>,
           <<Dict(Some("trade"), None), Dict(None, Some("book"))>>,
           <<NonDict, Dict(None, Some("ping")), Dict(None, Some("Pong"))>>}

\* The frames the socket delivers: a text that is no JSON, or the JSON text
\* of an object, of an array or of a scalar.
Text(text) == [isdict |-> FALSE, type |-> None, event_type |-> None, text |-> text]
TextFrame(text) == [form |-> "text", items |-> <<Text(text)>>]
JsonFrame(form, items) == [form |-> form, items |-> items]
RawFrames ==
    {TextFrame(text) : text \in {"ping", "PING\n", " pong ", "hello"}}
    \cup {JsonFrame("object", <<item>>) : item \in Dicts}
    \cup {JsonFrame("array", items) : items \in Arrays}
    \cup {JsonFrame("scalar", <<>>)}

Truthy(value) == value # None /\ Val(value) # ""

\* str(payload.get(first) or payload.get(second) or "").lower()
Hint(first, second) ==
    Lower(IF Truthy(first) THEN Val(first) ELSE IF Truthy(second) THEN Val(second) ELSE "")

\* _handle_ping: whether the text is swallowed, and the pongs it sends
_handle_ping(text, open) ==
    LET word == Lower(Strip(text)) IN
    [handled |-> word \in {"ping", "pong"},
     wire |-> IF word = "ping" /\ open THEN <<pong_message>> ELSE <<>>]

\* _handle_ping_payload that sends pong_message for a pong as well
HandlePingPayloadAnswersPong(payload, open) ==
    LET hint == Hint(payload.type, payload.event_type) IN
    [handled |-> hint \in {"ping", "pong"},
     wire |-> IF hint \in {"ping", "pong"} /\ open THEN <<pong_message>> ELSE <<>>]

_handle_ping_payload(payload, open) ==
    LET hint == Hint(payload.type, payload.event_type) IN
    [handled |-> hint \in {"ping", "pong"},
     wire |-> IF hint = "ping" /\ open THEN <<pong_message>> ELSE <<>>]

_detect_kind(payload) ==
    LET hint == Hint(payload.event_type, payload.type) IN
    CASE hint = "trade" -> "trade" [] hint = "book" -> "book" [] OTHER -> "raw"

FeedMessage(payload) == [kind |-> _detect_kind(payload), payload |-> payload]

\* The loop over the items of a decoded frame, up to its next yield.
RECURSIVE ProcessItems(_, _, _)
ProcessItems(items, open, done) ==
    IF items = <<>>
    THEN [wire |-> done.wire, processed |-> done.processed, yield |-> None, rest |-> <<>>]
    ELSE LET item == Head(items)
             ping == _handle_ping_payload(item, open)
             seen == Append(done.processed, item)
         IN IF ~item.isdict
            THEN ProcessItems(Tail(items), open, [wire |-> done.wire, processed |-> seen])
            ELSE IF ping.handled
            THEN ProcessItems(Tail(items), open,
                              [wire |-> done.wire \o ping.wire, processed |-> seen])
            ELSE [wire |-> done.wire, processed |-> seen,
                  yield |-> Some(FeedMessage(item)), rest |-> Tail(items)]

NothingDone == [wire |-> <<>>, processed |-> <<>>]

\* The body of async for on one frame: _handle_ping, _decode, then the items.
ProcessFrame(raw, open) ==
    IF raw.form = "text"
    THEN [wire |-> _handle_ping(raw.items[1].text, open).wire, processed |-> raw.items,
          yield |-> None, rest |-> <<>>]
    ELSE IF raw.form = "scalar"
    THEN [wire |-> <<>>, processed |-> <<>>, yield |-> None, rest |-> <<>>]
    ELSE ProcessItems(raw.items, open, NothingDone)

\* min(backoff * 2, reconnect_max_sec) applied n times to reconnect_backoff_sec
RECURSIVE DelayAfter(_)
DelayAfter(n) ==
    IF n = 0 THEN reconnect_backoff_sec
    ELSE Min({DelayAfter(n - 1) * 2, reconnect_max_sec})

\* connect() that keeps _subscribed_ids and a subscription that is not initial
EnsureSubscriptionIncremental(desired, subscribed) ==
    IF desired = {} THEN [sent |-> <<>>, subscribed |-> subscribed]
    ELSE _apply_subscription_changes(desired, subscribed, FALSE)

\* connect() clears _subscribed_ids; _ensure_subscription then sends the
\* initial form unless nothing is desired.
_ensure_subscription(desired, subscribed) ==
    IF desired = {} THEN [sent |-> <<>>, subscribed |-> {}]
    ELSE _apply_subscription_changes(desired, {}, TRUE)

_start_ping_task(task) == IF task # "none" THEN task ELSE "running"

_stop_ping_task(task) == "none"

\* The except branch of messages(): _stop_ping_task, then asyncio.sleep(backoff).
Failed ==
    /\ ping_task' = _stop_ping_task(ping_task)
    /\ sleeping' = backoff
    /\ failures' = IF DelayAfter(failures) = reconnect_max_sec THEN failures
                   ELSE failures + 1
    /\ msg_pc' = "backoff"
    /\ UNCHANGED backoff

\* while not self._stop.is_set(), and the test of _desired_ids
LoopTop ==
    /\ msg_pc = "top"
    /\ msg_pc' = IF stopped THEN "done"
                 ELSE IF desired_ids = {} THEN "sleep_empty" ELSE "connecting"
    /\ wire' = <<>>
    /\ processed' = <<>>
    /\ sent' = <<>>
    /\ UNCHANGED <<ws_open, stopped, desired_ids, subscribed_ids, feedCall, backoff,
                   ping_task, close_pc, pending, yielded, msgGhosts>>

SleepEmptyDone ==
    /\ msg_pc = "sleep_empty"
    /\ msg_pc' = "top"
    /\ wire' = <<>>
    /\ processed' = <<>>
    /\ sent' = <<>>
    /\ UNCHANGED <<ws_open, stopped, desired_ids, subscribed_ids, feedCall, backoff,
                   ping_task, close_pc, pending, yielded, msgGhosts>>

\* websockets.connect returns: the rest of connect(), _ensure_subscription,
\* _start_ping_task, and the wait for the first frame.
Connected ==
    /\ msg_pc = "connecting"
    /\ LET r == _ensure_subscription(desired_ids, subscribed_ids) IN
       /\ sent' = r.sent
       /\ subscribed_ids' = r.subscribed
    /\ ws_open' = TRUE
    /\ ping_task' = _start_ping_task(ping_task)
    /\ prev_subscribed' = subscribed_ids
    /\ feedCall' = [op |-> "connect", token_ids |-> desired_ids, open |-> FALSE,
                    initial |-> TRUE]
    /\ msg_pc' = "receiving"
    /\ wire' = <<>>
    /\ processed' = <<>>
    /\ UNCHANGED <<stopped, desired_ids, backoff, close_pc, pending, yielded,
                   sleeping, failures>>

\* websockets.connect raises.
ConnectFailed ==
    /\ msg_pc = "connecting"
    /\ Failed
    /\ wire' = <<>>
    /\ processed' = <<>>
    /\ sent' = <<>>
    /\ UNCHANGED <<ws_open, stopped, desired_ids, subscribed_ids, feedCall, close_pc,
                   pending, yielded, prev_subscribed>>

\* asyncio.sleep(backoff) returns.
BackoffDone ==
    /\ msg_pc = "backoff"
    /\ backoff' = Min({backoff * 2, reconnect_max_sec})
    /\ msg_pc' = "top"
    /\ wire' = <<>>
    /\ processed' = <<>>
    /\ sent' = <<>>
    /\ UNCHANGED <<ws_open, stopped, desired_ids, subscribed_ids, feedCall, ping_task,
                   close_pc, pending, yielded, msgGhosts>>

\* What the loop body leaves after running up to its next suspension.
Processed(r) ==
    /\ wire' = r.wire
    /\ processed' = r.processed
    /\ yielded' = r.yield
    /\ pending' = r.rest
    /\ msg_pc' = IF r.yield = None THEN "receiving" ELSE "yielded"
    /\ failures' = 0
    /\ sent' = <<>>
    /\ UNCHANGED <<ws_open, stopped, desired_ids, subscribed_ids, feedCall, backoff,
                   ping_task, close_pc, sleeping, prev_subscribed>>

\* The socket delivers a frame.
Receive(raw) ==
    /\ msg_pc = "receiving"
    /\ ws_open
    /\ \E r \in {ProcessFrame(raw, ws_open)} : Processed(r)

\* The consumer asks for the next message: the loop goes on after the yield.
Resume ==
    /\ msg_pc = "yielded"
    /\ \E r \in {ProcessItems(pending, ws_open, NothingDone)} : Processed(r)

\* The connection is closed in order: async for ends and the backoff is reset.
ConnectionClosedOK ==
    /\ msg_pc = "receiving"
    /\ ws_open' = FALSE
    /\ backoff' = reconnect_backoff_sec
    /\ failures' = 0
    /\ msg_pc' = "top"
    /\ wire' = <<>>
    /\ processed' = <<>>
    /\ sent' = <<>>
    /\ UNCHANGED <<stopped, desired_ids, subscribed_ids, feedCall, ping_task, close_pc,
                   pending, yielded, sleeping, prev_subscribed>>

\* The connection breaks: async for raises ConnectionClosedError.
ConnectionClosedError ==
    /\ msg_pc = "receiving"
    /\ ws_open
    /\ ws_open' = FALSE
    /\ Failed
    /\ wire' = <<>>
    /\ processed' = <<>>
    /\ sent' = <<>>
    /\ UNCHANGED <<stopped, desired_ids, subscribed_ids, feedCall, close_pc, pending,
                   yielded, prev_subscribed>>

\* _ping_loop: it ends once _stop is set, and sends ping_message on an open
\* socket otherwise.
PingLoop ==
    /\ ping_task = "running"
    /\ ping_task' = IF stopped THEN "finished" ELSE ping_task
    /\ wire' = IF ~stopped /\ ws_open THEN <<ping_message>> ELSE <<>>
    /\ processed' = <<>>
    /\ sent' = <<>>
    /\ UNCHANGED <<ws_open, stopped, desired_ids, subscribed_ids, feedCall, msg_pc,
                   backoff, close_pc, pending, yielded, msgGhosts>>

\* close() up to its first suspension: _stop.set(), and either the wait for
\* the cancelled ping task, the wait for ws.close(), or the return.
CloseCall ==
    /\ close_pc \in {"idle", "returned"}
    /\ stopped' = TRUE
    /\ close_pc' = IF ping_task # "none" THEN "stopping_ping"
                   ELSE IF ws_open THEN "closing" ELSE "returned"
    /\ wire' = <<>>
    /\ processed' = <<>>
    /\ sent' = <<>>
    /\ feedCall' = [op |-> "close", token_ids |-> {}, open |-> ws_open, initial |-> FALSE]
    /\ UNCHANGED <<ws_open, desired_ids, subscribed_ids, msg_pc, backoff, ping_task,
                   pending, yielded, msgGhosts>>

\* close(): the cancelled ping task has ended.
ClosePingStopped ==
    /\ close_pc = "stopping_ping"
    /\ ping_task' = _stop_ping_task(ping_task)
    /\ close_pc' = IF ws_open THEN "closing" ELSE "returned"
    /\ wire' = <<>>
    /\ processed' = <<>>
    /\ sent' = <<>>
    /\ UNCHANGED <<ws_open, stopped, desired_ids, subscribed_ids, feedCall, msg_pc,
                   backoff, pending, yielded, msgGhosts>>

\* close(): ws.close() has returned, _ws = None.
CloseSocketClosed ==
    /\ close_pc = "closing"
    /\ ws_open' = FALSE
    /\ close_pc' = "returned"
    /\ wire' = <<>>
    /\ processed' = <<>>
    /\ sent' = <<>>
    /\ UNCHANGED <<stopped, desired_ids, subscribed_ids, feedCall, msg_pc, backoff,
                   ping_task, pending, yielded, msgGhosts>>

SubscribeSets == {{}, Ids(0, 2), Ids(3, 11)}

otherThanMessages == <<bookVars, consumeVars, sigVars, muxVars, refreshVars, extraVars>>

LoopTopStep == LoopTop /\ UNCHANGED otherThanMessages

SleepEmptyDoneStep == SleepEmptyDone /\ UNCHANGED otherThanMessages

ConnectedStep == Connected /\ UNCHANGED otherThanMessages

ConnectFailedStep == ConnectFailed /\ UNCHANGED otherThanMessages

BackoffDoneStep == BackoffDone /\ UNCHANGED otherThanMessages

ReceiveStep == (\E raw \in RawFrames : Receive(raw)) /\ UNCHANGED otherThanMessages

ResumeStep == Resume /\ UNCHANGED otherThanMessages

ConnectionClosedOKStep == ConnectionClosedOK /\ UNCHANGED otherThanMessages

ConnectionClosedErrorStep == ConnectionClosedError /\ UNCHANGED otherThanMessages

PingLoopStep == PingLoop /\ UNCHANGED otherThanMessages

CloseCallStep == CloseCall /\ UNCHANGED otherThanMessages

ClosePingStoppedStep == ClosePingStopped /\ UNCHANGED otherThanMessages

CloseSocketClosedStep == CloseSocketClosed /\ UNCHANGED otherThanMessages

\* subscribe() called by the refresh loop while messages() is suspended
SubscribeDuringMessagesStep ==
    /\ \E ids \in SubscribeSets : subscribe(ids)
    /\ wire' = <<>>
    /\ processed' = <<>>
    /\ UNCHANGED <<msgState, msgGhosts, otherThanMessages>>

InitMessages ==
    /\ InitBook
    /\ InitIdle
    /\ InitComponent
    /\ InitEngine(DefaultConfig)
    /\ InitAdapters

NextMessages ==
    \/ LoopTopStep \/ SleepEmptyDoneStep \/ ConnectedStep \/ ConnectFailedStep
    \/ BackoffDoneStep \/ ReceiveStep \/ ResumeStep \/ ConnectionClosedOKStep
    \/ ConnectionClosedErrorStep \/ PingLoopStep \/ CloseCallStep
    \/ ClosePingStoppedStep \/ CloseSocketClosedStep \/ SubscribeDuringMessagesStep

SpecMessages == InitMessages /\ [][NextMessages]_vars

(***************************************************************************)
(* adapters/multiplex_sink.py: MultiplexEventSink                          *)
(***************************************************************************)
SinkNames == {"a", "b", "c"}

\* EventType members as value and name.
EventTypes ==
    {[value |-> "TradeSignal", name |-> "TRADE_SIGNAL"],
     [value |-> "BookSignal", name |-> "BOOK_SIGNAL"]}

NoRoutes == [x \in {} |-> <<>>]
RouteTables ==
    {NoRoutes,
     [x \in {"TradeSignal"} |-> <<"b", "a">>],
     [x \in {"TRADE_SIGNAL"} |-> <<"x", "c", "a">>],
     [x \in {"TradeSignal", "BOOK_SIGNAL"} |-> IF x = "TradeSignal" THEN <<>> ELSE <<"c">>]}

MuxConfigs ==
    [sinks : {<<"a", "b", "c">>}, mode : {"best_effort", "required_sinks"},
     required : {{}, {"b"}, {"a", "c"}, {"x"}}, routes : RouteTables]

SeqRange(s) == {s[i] : i \in DOMAIN s}

\* dict.get(key) or ...: a missing key and an empty list are both falsy
RouteGet(routes, key) == IF key \in DOMAIN routes THEN routes[key] ELSE <<>>

_resolve_targets(event_type) ==
    LET routed == IF RouteGet(muxCfg.routes, event_type.value) # <<>>
                  THEN RouteGet(muxCfg.routes, event_type.value)
                  ELSE RouteGet(muxCfg.routes, event_type.name)
    IN IF routed # <<>> THEN routed ELSE muxCfg.sinks

\* A loop that gives up at the first sink that raises.
RECURSIVE PublishLoopStopAtFirstError(_, _, _, _)
PublishLoopStopAtFirstError(names, failing, done, errs) ==
    IF names = <<>> \/ errs # {} THEN [called |-> done, errors |-> errs]
    ELSE IF Head(names) \notin SeqRange(muxCfg.sinks)
    THEN PublishLoopStopAtFirstError(Tail(names), failing, done, errs)
    ELSE PublishLoopStopAtFirstError(Tail(names), failing, Append(done, Head(names)),
            IF Head(names) \in failing THEN errs \cup {Head(names)} ELSE errs)

\* The for loop of publish: failing is the set of sinks whose publish raises.
RECURSIVE PublishLoop(_, _, _, _)
PublishLoop(names, failing, done, errs) ==
    IF names = <<>> THEN [called |-> done, errors |-> errs]
    ELSE IF Head(names) \notin SeqRange(muxCfg.sinks)
    THEN PublishLoop(Tail(names), failing, done, errs)
    ELSE PublishLoop(Tail(names), failing, Append(done, Head(names)),
            IF Head(names) \in failing THEN errs \cup {Head(names)} ELSE errs)

\* A decision that raises for every failure and names every failing sink.
RaiseDecisionAnyFailure(errs) ==
    IF errs = {} THEN None ELSE Some(errs)

\* What publish does after the loop: None is a normal return, Some(names) the
\* RuntimeError with the names of sorted(set(errors) & required).
RaiseDecision(errs) ==
    IF errs = {} THEN None
    ELSE IF muxCfg.mode = "required_sinks" \/ muxCfg.required # {}
    THEN IF errs \cap muxCfg.required # {} THEN Some(errs \cap muxCfg.required) ELSE None
    ELSE None

publish(event_type, failing) ==
    LET target_names == _resolve_targets(event_type)
        r == PublishLoop(target_names, failing, <<>>, {})
    IN /\ called' = r.called
       /\ errors' = r.errors
       /\ raised' = RaiseDecision(r.errors)
       /\ muxCall' = [op |-> "publish", event_type |-> Some(event_type),
                      failing |-> failing, targets |-> target_names]
       /\ UNCHANGED muxCfg

otherThanMux == <<bookVars, consumeVars, sigVars, feedVars, refreshVars, extraVars>>

PublishStep ==
    /\ \E event_type \in EventTypes, failing \in SUBSET SinkNames :
          publish(event_type, failing)
    /\ UNCHANGED otherThanMux

InitMuxSpec ==
    /\ InitBook
    /\ InitIdle
    /\ InitComponent
    /\ InitEngine(DefaultConfig)
    /\ InitFeed
    /\ \E config \in MuxConfigs : InitMux(config)

NextMux == PublishStep

SpecMux == InitMuxSpec /\ [][NextMux]_vars

(***************************************************************************)
(* application/component.py: the refresh loop.  One iteration runs as one  *)
(* step at the time now; volumes are in dollars, times in ticks of 30 s.   *)
(* The calls of the ports (discovery, feed, sink) and of the detector are  *)
(* recorded in refreshLog in the order they are made.                      *)
(***************************************************************************)
RefreshInterval == 1         \* refresh_interval_sec, in ticks
PollingThreshold == 100      \* polling_volume_threshold_usd, dollars per minute
PollingCooldown == 2         \* polling_cooldown_sec, in ticks

\* Market (market_id, token_ids, volume_24h); one category.
MarketM1 == [market_id |-> "m1", token_ids |-> {"a"}, volume_24h |-> None]
MarketM2 == [market_id |-> "m2", token_ids |-> {"b"}, volume_24h |-> None]
MarketU1(volume) == [market_id |-> "u1", token_ids |-> {}, volume_24h |-> Some(volume)]

\* DiscoveryResult: the markets of the category and the unsubscribable markets
DiscoveryResults ==
    [markets : {{}, {MarketM1}, {MarketM1, MarketM2}},
     unsubscribable : {{}, {MarketU1(0)}, {MarketU1(50)}, {MarketU1(100)}}]

\* The awaited call that raises in an iteration, counted from 1 in the order
\* the calls are made; 0 when none raises.
FaultPoints == 0..8

TokenOrder == <<"a", "b">>
SortedTokens(S) == SelectSeq(TokenOrder, LAMBDA x : x \in S)

\* The members of a set in the order the iteration meets them.
RECURSIVE SetToSeq(_)
SetToSeq(S) ==
    IF S = {} THEN <<>>
    ELSE LET x == CHOOSE y \in S : TRUE IN <<x>> \o SetToSeq(S \ {x})

RefreshState ==
    [token_ids |-> token_ids, markets_by_id |-> markets_by_id,
     token_meta |-> component_token_meta, lifecycle_ready |-> lifecycle_ready,
     startup_notified |-> startup_notified,
     last_refresh_start_ms |-> last_refresh_start_ms,
     unsub_prev_volume |-> unsub_prev_volume, unsub_cooldowns |-> unsub_cooldowns]

\* An iteration under way: the fields, the calls made, the calls still to be
\* made before the one that raises, and whether a call has raised.
Started(fail_at) == [st |-> RefreshState, log |-> <<>>, k |-> fail_at, raised |-> FALSE]

\* F applied to the value of x (x is evaluated once, whatever F does with it).
Eager(x, F(_)) == CHOOSE y \in {F(v) : v \in {x}} : TRUE

\* The rest of the try block is skipped once a call has raised.
WhenOk(x, F(_)) == Eager(x, LAMBDA r : IF r.raised THEN r ELSE F(r))

\* An awaited call: it raises when it is the call the fault names.
Await(x, call, what, arg) ==
    WhenOk(x, LAMBDA r :
        IF r.k = 1
        THEN [r EXCEPT !.raised = TRUE, !.k = 0,
                       !.log = Append(@, [call |-> call, what |-> what, arg |-> arg,
                                          ok |-> FALSE])]
        ELSE [r EXCEPT !.k = IF @ = 0 THEN 0 ELSE @ - 1,
                       !.log = Append(@, [call |-> call, what |-> what, arg |-> arg,
                                          ok |-> TRUE])])

\* A call that does not raise (detector.update_registry).
Call(x, call, what, arg) ==
    WhenOk(x, LAMBDA r :
        [r EXCEPT !.log = Append(@, [call |-> call, what |-> what, arg |-> arg,
                                     ok |-> TRUE])])

RECURSIVE EmitLifecycles(_, _, _)
EmitLifecycles(r, market_ids, status) ==
    IF market_ids = <<>> THEN r
    ELSE EmitLifecycles(Await(r, "publish", "MarketLifecycle", <<Head(market_ids), status>>),
                        Tail(market_ids), status)

\* A variant of _emit_market_lifecycle that reports the new markets only.
EmitNewMarketsOnly(x, new_ids) ==
    Eager(x, LAMBDA r : EmitLifecycles(r, SetToSeq(new_ids \ r.st.markets_by_id), "new"))

_emit_market_lifecycle(x, new_ids) ==
    Eager(x, LAMBDA r :
        EmitLifecycles(EmitLifecycles(r, SetToSeq(r.st.markets_by_id \ new_ids), "removed"),
                       SetToSeq(new_ids \ r.st.markets_by_id), "new"))

_build_token_meta(markets) == UNION {m.token_ids : m \in markets}

_handle_refresh(x, result) ==
    LET new_markets == {m.market_id : m \in result.markets \cup result.unsubscribable}
        token_meta_new == _build_token_meta(result.markets)
        new_token_ids == SortedTokens(token_meta_new)
        Lifecycles(r) ==
            IF r.st.lifecycle_ready THEN _emit_market_lifecycle(r, new_markets) ELSE r
        Registry(r) == Call(r, "update_registry", "detector", token_meta_new)
        Subscribe(r) ==
            IF new_token_ids = r.st.token_ids THEN r
            ELSE WhenOk(Await(Await(r, "subscribe", "feed", new_token_ids),
                              "publish", "SubscriptionChanged", new_token_ids),
                        LAMBDA q : [q EXCEPT !.st.token_ids = new_token_ids])
        Candidates(r) == Await(r, "publish", "CandidateSelected", Cardinality(result.markets))
        Finish(r) == [r EXCEPT !.st.token_meta = token_meta_new,
                               !.st.markets_by_id = new_markets,
                               !.st.lifecycle_ready = TRUE]
    IN WhenOk(WhenOk(WhenOk(WhenOk(WhenOk(x, Lifecycles), Registry), Subscribe),
                     Candidates), Finish)

\* A variant of the threshold test that leaves the boundary out.
AboveThresholdOnly(delta, gap) == 2 * delta > PollingThreshold * gap

\* not (delta < threshold), with threshold = polling_volume_threshold_usd *
\* max(window_sec, 1) / 60
ThresholdReached(delta, gap) == 2 * delta >= PollingThreshold * gap

\* One market of _emit_unsubscribable_signals; gap is the window in ticks, so
\* that delta < threshold * window_sec / 60 is 2 * delta < threshold * gap.
EmitUnsubscribable(x, market, gap) ==
    WhenOk(x, LAMBDA r :
        IF market.volume_24h = None THEN r
        ELSE LET id == market.market_id
                 volume == Val(market.volume_24h)
                 known == id \in DOMAIN r.st.unsub_prev_volume
                 prev == IF known THEN r.st.unsub_prev_volume[id] ELSE 0
                 delta == Max({0, volume - prev})
                 last_ts == IF id \in DOMAIN r.st.unsub_cooldowns
                            THEN r.st.unsub_cooldowns[id] ELSE 0
                 r1 == [r EXCEPT !.st.unsub_prev_volume = PutKey(@, id, volume)]
             IN IF ~known THEN r1
                ELSE IF ~ThresholdReached(delta, gap) THEN r1
                ELSE IF now - last_ts < PollingCooldown THEN r1
                ELSE Await([r1 EXCEPT !.st.unsub_cooldowns = PutKey(@, id, now)],
                           "publish", "TradeSignal", <<id, "web_volume_spike", delta>>))

RECURSIVE EmitUnsubscribables(_, _, _)
EmitUnsubscribables(r, markets, gap) ==
    IF markets = <<>> THEN r
    ELSE EmitUnsubscribables(EmitUnsubscribable(r, Head(markets), gap), Tail(markets), gap)

_emit_unsubscribable_signals(r, markets, gap) ==
    IF PollingThreshold <= 0 THEN r
    ELSE EmitUnsubscribables(r, SetToSeq(markets), gap)

\* A variant of the startup test that forgets the notification already made.
NotifyWheneverSubscribed(st) == st.token_ids # <<>>

\* if not self._startup_notified and self._token_ids
ShouldNotify(st) == ~st.startup_notified /\ st.token_ids # <<>>

\* The try block of _refresh_loop.  discovery is the DiscoveryResult that
\* discovery.refresh returns when it does not raise.
TryRefresh(discovery, fail_at) ==
    LET gap == IF last_refresh_start_ms = None THEN RefreshInterval
               ELSE Max({0, now - Val(last_refresh_start_ms)})
        Discover(r) == Await(r, "refresh", "discovery", <<>>)
        Handle(r) == _handle_refresh(r, discovery)
        Record(r) == [r EXCEPT !.st.last_refresh_start_ms = Some(now)]
        Unsubscribable(r) == _emit_unsubscribable_signals(r, discovery.unsubscribable, gap)
        Monitoring(r) ==
            IF ~ShouldNotify(r.st) THEN r
            ELSE WhenOk(Await(r, "publish", "MonitoringStatus", r.st.token_ids),
                        LAMBDA q : [q EXCEPT !.st.startup_notified = TRUE])
        Health(r) == Await(r, "publish", "HealthEvent", "refresh_ok")
    IN WhenOk(WhenOk(WhenOk(WhenOk(WhenOk(WhenOk(Started(fail_at), Discover), Handle),
                                   Record), Unsubscribable), Monitoring), Health)

\* One iteration of _refresh_loop up to its sleep: the try block, and the
\* handler that publishes the refresh_error HealthEvent.  What that publish
\* raises leaves the handler and ends the loop.
RefreshIteration(discovery, fail_at, health_fails) ==
    /\ refresh_pc = "ready"
    /\ \E r \in {TryRefresh(discovery, fail_at)} :
           /\ fail_at # 0 => r.raised
           /\ health_fails => r.raised
           /\ token_ids' = r.st.token_ids
           /\ markets_by_id' = r.st.markets_by_id
           /\ component_token_meta' = r.st.token_meta
           /\ lifecycle_ready' = r.st.lifecycle_ready
           /\ startup_notified' = r.st.startup_notified
           /\ last_refresh_start_ms' = r.st.last_refresh_start_ms
           /\ unsub_prev_volume' = r.st.unsub_prev_volume
           /\ unsub_cooldowns' = r.st.unsub_cooldowns
           /\ refreshLog' = IF ~r.raised THEN r.log
                            ELSE Append(r.log, [call |-> "publish", what |-> "HealthEvent",
                                                arg |-> "refresh_error", ok |-> ~health_fails])
           /\ refresh_pc' = IF r.raised /\ health_fails THEN "ended" ELSE "sleeping"
           /\ UNCHANGED now

\* clock.sleep(refresh_interval_sec)
RefreshSleep ==
    /\ refresh_pc = "sleeping"
    /\ now + RefreshInterval <= StartTick + MaxClock
    /\ now' = now + RefreshInterval
    /\ refresh_pc' = "ready"
    /\ refreshLog' = <<>>
    /\ UNCHANGED <<token_ids, markets_by_id, component_token_meta, lifecycle_ready,
                   startup_notified, last_refresh_start_ms, unsub_prev_volume,
                   unsub_cooldowns>>

otherThanRefresh == <<bookVars, resync_on_gap, last_resync_ms, resubscribed, handed,
                      awaiting, consume_running, consumeCall, resubscribedAt,
                      sigVars, feedVars, muxVars, extraVars>>

RefreshIterationStep ==
    /\ \E discovery \in DiscoveryResults, fail_at \in FaultPoints, health_fails \in BOOLEAN :
          RefreshIteration(discovery, fail_at, health_fails)
    /\ UNCHANGED otherThanRefresh

RefreshSleepStep == RefreshSleep /\ UNCHANGED otherThanRefresh

InitRefreshSpec ==
    /\ InitBook
    /\ InitIdle
    /\ InitComponent
    /\ InitEngine(DefaultConfig)
    /\ InitAdapters

NextRefresh == RefreshIterationStep \/ RefreshSleepStep

SpecRefresh == InitRefreshSpec /\ [][NextRefresh]_vars

(***************************************************************************)
(* Claims about the order-book registry (checked under SpecBook, where     *)
(* every step is one registry call described by lastCall').                *)
(***************************************************************************)
IsRegistryCall(call) == call.op \in {"apply_snapshot", "apply_price_change"}

\* The call of this step is on token t, whose last_seq is known before the
\* call, and carries a sequence number other than last_seq + 1.
GapCallOn(t) ==
    /\ IsRegistryCall(lastCall')
    /\ lastCall'.token_id = Some(t)
    /\ t \in DOMAIN books
    /\ books[t].last_seq # None
    /\ lastCall'.seq # None
    /\ Val(lastCall'.seq) # Val(books[t].last_seq) + 1

\* C1: apply_snapshot and apply_price_change on a token whose last_seq is
\* known, with a sequence number that is not last_seq + 1, empty the token's
\* bids and asks and return resync_needed = true, expected_seq = last_seq + 1,
\* received_seq = seq and snapshot = null; nothing of the message is applied.
C1_GapClearsBookAndReports ==
    [][\A t \in Tokens :
         GapCallOn(t) =>
            /\ books'[t].bids = EmptyBook
            /\ books'[t].asks = EmptyBook
            /\ lastResult' = Result(Some(t), None, TRUE,
                                    Some(Val(books[t].last_seq) + 1), lastCall'.seq)]_vars

\* The test's case: snapshot with seq 1, then a price_change with seq 3.
C1_Witness ==
    /\ lastCall.op = "apply_price_change"
    /\ lastResult.resync_needed
    /\ lastResult.expected_seq = Some(2)
    /\ lastResult.received_seq = Some(3)
    /\ \E t \in DOMAIN books : books[t].bids = EmptyBook /\ books[t].asks = EmptyBook

IsNonIncreasing(levels) ==
    \A i \in DOMAIN levels : \A j \in DOMAIN levels :
        i < j => levels[i].price >= levels[j].price

IsNonDecreasing(levels) ==
    \A i \in DOMAIN levels : \A j \in DOMAIN levels :
        i < j => levels[i].price <= levels[j].price

\* C3: every retained bid and ask level has size > 0, and every snapshot
\* returned by apply_price_change lists bids in non-increasing and asks in
\* non-decreasing price order.
C3_RetainedLevelsPositiveAndSorted ==
    /\ \A t \in DOMAIN books :
          /\ \A p \in DOMAIN books[t].bids : books[t].bids[p] > 0
          /\ \A p \in DOMAIN books[t].asks : books[t].asks[p] > 0
    /\ (lastCall.op = "apply_price_change" /\ lastResult.snapshot # None) =>
          /\ IsNonIncreasing(Val(lastResult.snapshot).bids)
          /\ IsNonDecreasing(Val(lastResult.snapshot).asks)

\* C4: a call that carries sequence number s and reports no gap leaves the
\* token's last_seq equal to s, and last_seq never decreases while it is known.
C4_AcceptedSeqIsRecorded ==
    [][\A t \in Tokens :
         /\ (/\ IsRegistryCall(lastCall')
             /\ lastCall'.token_id = Some(t)
             /\ t \in DOMAIN books'
             /\ lastCall'.seq # None
             /\ ~lastResult'.resync_needed)
            => books'[t].last_seq = lastCall'.seq
         /\ (/\ t \in DOMAIN books /\ books[t].last_seq # None
             /\ books'[t].last_seq # None)
            => Val(books'[t].last_seq) >= Val(books[t].last_seq)]_vars

(***************************************************************************)
(* Claims about the consume loop (checked under SpecConsume).              *)
(***************************************************************************)
\* C2: after a sequence gap for a token, no book of that token is handed to
\* handle_book until a fresh full snapshot of that token has been applied; a
\* price_change in between hands nothing down, whatever its sequence number.
C2_NoBookDownstreamAfterGap ==
    handed # None => Val(handed).token_id \notin awaiting



\* C12: an error raised while one feed message is processed does not end the
\* consume loop: the loop goes on with the next message.
C12_ConsumeLoopSurvivesErrors ==
    [][consumeCall'.raised => consume_running']_vars

\* C13: feed.resubscribe is called, with the current token ids, only when the
\* order-book update reported resync_needed, resync_on_gap is on and the token
\* set is not empty; a call comes at least resync_min_interval_sec after the
\* call before it, and a gap reported sooner than that triggers no call.
C13_ResubscribeOnlyOnGapAndThrottled ==
    [][/\ resubscribed' # None =>
            /\ lastResult'.resync_needed
            /\ resync_on_gap
            /\ token_ids # <<>>
            /\ resubscribed' = Some(token_ids)
            /\ resubscribedAt # <<>> =>
                    now - resubscribedAt[Len(resubscribedAt)] >= ResyncMinInterval
       /\ (/\ lastResult'.resync_needed
           /\ resubscribedAt # <<>>
           /\ now - resubscribedAt[Len(resubscribedAt)] < ResyncMinInterval)
              => resubscribed' = None]_vars

\* A second resubscribe call is made, for a gap reported after the interval.
C13_Witness ==
    /\ consume_running
    /\ resubscribed # None
    /\ lastResult.resync_needed
    /\ Len(resubscribedAt) = 2
    /\ resubscribedAt[2] = now

\* C21: with drop_expired_markets on, no event of any signal (from a trade, a
\* book or the flush of a merge bucket) is published for a token whose market
\* has end_ts <= now when it is handled; end_ts = now counts as expired.
C21_NoSignalForExpiredMarket ==
    \A i \in DOMAIN published :
        LET token_id == published[i].token_id IN
        /\ token_id \in DOMAIN token_meta
        /\ (cfg.drop_expired_markets /\ token_meta[token_id].end_ts # None) =>
              Val(token_meta[token_id].end_ts) > now

\* A big trade arrived at the very tick its market ends, nothing else stood in
\* the way of its signal, and nothing was published.
C21_Witness ==
    /\ sigCall.op = "handle_trade"
    /\ cfg.drop_expired_markets
    /\ cfg.merge_window_sec = 0
    /\ Val(sigCall.token_id) \in DOMAIN token_meta
    /\ token_meta[Val(sigCall.token_id)].end_ts = Some(now)
    /\ sigCall.price * sigCall.size >= cfg.big_trade_usd
    /\ DOMAIN cooldowns = {}
    /\ published = <<>>

(***************************************************************************)
(* Claims about handle_trade at the thresholds (SpecTrade).                 *)
(***************************************************************************)
\* The step is handle_trade on a registered token whose market has not expired.
TradeHandled ==
    /\ sigCall'.op = "handle_trade"
    /\ Val(sigCall'.token_id) \in DOMAIN token_meta
    /\ ~_is_market_expired(token_meta[Val(sigCall'.token_id)], now)

GatingPasses(price) == ~_is_high_confidence_market(price) \/ _is_reverse_allow_price(price)

PublishedOf(signal) ==
    {i \in DOMAIN published' : published'[i].payload.signal = signal}

\* No emission of the signal for the token falls within cooldown_sec before now.
CooldownOver(token_id, signal) ==
    LET key == <<token_id, signal>> IN
    key \in DOMAIN cooldowns => now - cooldowns[key] >= cfg.cooldown_ms

\* C19: with merging disabled, cooldown 0 and the gating passing, handle_trade
\* on a registered token publishes a big_trade exactly when price * size >=
\* big_trade_usd, the boundary included, and that event carries the trade's
\* notional, price and size.
C19_BigTradeIffNotionalReachesThreshold ==
    [][(/\ TradeHandled
        /\ cfg.merge_window_sec = 0
        /\ cfg.cooldown_ms = 0
        /\ GatingPasses(sigCall'.price)) =>
          LET notional == sigCall'.price * sigCall'.size IN
          /\ (PublishedOf("big_trade") # {}) <=> (notional >= cfg.big_trade_usd)
          /\ \A i \in PublishedOf("big_trade") :
                /\ published'[i].payload.notional = notional
                /\ published'[i].payload.price = Ratio(sigCall'.price, 1)
                /\ published'[i].payload.size = sigCall'.size
                /\ published'[i].token_id = Val(sigCall'.token_id)]_vars

\* A trade of exactly big_trade_usd was published as a big_trade.
C19_Witness ==
    /\ sigCall.op = "handle_trade"
    /\ cfg.cooldown_ms = 0
    /\ cfg.merge_window_sec = 0
    /\ sigCall.price * sigCall.size = cfg.big_trade_usd
    /\ Len(published) = 1
    /\ published[1].payload.signal = "big_trade"
    /\ published[1].payload.notional = cfg.big_trade_usd

\* max(p, 1 - p) >= high_confidence_threshold for a price p in [0, 1] (in hundredths)
HighConfidence(price) ==
    /\ cfg.high_confidence_threshold > 0
    /\ price \in 0..100
    /\ (price >= cfg.high_confidence_threshold \/ 100 - price >= cfg.high_confidence_threshold)

ReverseAllowed(price) == cfg.reverse_allow_threshold > 0 /\ price <= cfg.reverse_allow_threshold

\* C22: a trade at a high-confidence price publishes no big_trade and no
\* volume_spike_1m and deposits nothing in a merge bucket, unless
\* reverse_allow_threshold > 0 and the price is at most that threshold: then the
\* signal goes out (or, with merging, into the bucket) as for any other price.
C22_HighConfidenceTradesAreSuppressed ==
    [][TradeHandled =>
          LET price == sigCall'.price
              token_id == Val(sigCall'.token_id)
              qualifies == \/ price * sigCall'.size >= cfg.big_trade_usd
                           \/ windows'[token_id].total >= cfg.big_volume_1m_usd
              sized == PublishedOf("big_trade") \cup PublishedOf("volume_spike_1m")
              key == _bucket_key(token_meta[token_id])
          IN /\ (HighConfidence(price) /\ ~ReverseAllowed(price)) =>
                   /\ sized = {}
                   /\ trade_buckets' = trade_buckets
             /\ (HighConfidence(price) /\ ReverseAllowed(price) /\ qualifies
                 /\ cfg.cooldown_ms = 0) =>
                   IF cfg.merge_window_sec = 0 THEN sized # {}
                   ELSE /\ key \in DOMAIN trade_buckets'
                        /\ trade_buckets'[key].last_price = price]_vars

\* A reverse-allowed trade at the threshold price had its signal published.
C22_Witness ==
    /\ sigCall.op = "handle_trade"
    /\ cfg.high_confidence_threshold > 0
    /\ sigCall.price = cfg.reverse_allow_threshold
    /\ 100 - sigCall.price >= cfg.high_confidence_threshold
    /\ Len(published) = 1
    /\ published[1].payload.signal = "volume_spike_1m"

\* What C20 expects of the step, given the trade's notional and the window total.
OneEventForTheTrade ==
    LET notional == sigCall'.price * sigCall'.size
        total == windows'[Val(sigCall'.token_id)].total
        sized == PublishedOf("big_trade") \cup PublishedOf("volume_spike_1m")
    IN /\ (notional >= cfg.big_trade_usd /\ total >= cfg.big_volume_1m_usd) =>
             /\ Cardinality(sized) = 1
             /\ PublishedOf("volume_spike_1m") = {}
             /\ \A i \in sized : published'[i].payload.vol_1m = Some(total)
       /\ (notional < cfg.big_trade_usd /\ total >= cfg.big_volume_1m_usd) =>
             /\ Cardinality(sized) = 1
             /\ PublishedOf("big_trade") = {}
             /\ \A i \in sized : published'[i].payload.vol_1m = total

\* C20: with merge_window_sec = 0, a trade that is a big trade and brings the
\* window total to big_volume_1m_usd produces exactly one event, a big_trade
\* with vol_1m = window total and no volume_spike_1m; a trade that meets the
\* window condition only produces exactly one volume_spike_1m and no big_trade.
C20_OneEventPerQualifyingTrade ==
    [][(TradeHandled /\ cfg.merge_window_sec = 0) =>
          /\ OneEventForTheTrade
          /\ windows'[Val(sigCall'.token_id)].total >= cfg.big_volume_1m_usd
                => Len(published') = 1]_vars

\* C20 as the code has it: the same, for a trade whose price passes the
\* high-confidence gate and whose signal is out of its cooldown, and counting
\* the big_trade and volume_spike_1m events (a major_change of the same trade
\* is published besides).
C20_OneSizedEventWhenNotSuppressed ==
    [][(/\ TradeHandled
        /\ cfg.merge_window_sec = 0
        /\ GatingPasses(sigCall'.price)
        /\ CooldownOver(Val(sigCall'.token_id),
                        IF sigCall'.price * sigCall'.size >= cfg.big_trade_usd
                        THEN "big_trade" ELSE "volume_spike_1m"))
          => OneEventForTheTrade]_vars

\* A big trade that also reached the window threshold went out as one
\* big_trade carrying the window total.
C20_Witness ==
    /\ sigCall.op = "handle_trade"
    /\ cfg.merge_window_sec = 0
    /\ Len(published) = 1
    /\ published[1].payload.signal = "big_trade"
    /\ published[1].payload.vol_1m # None
    /\ Val(published[1].payload.vol_1m) >= cfg.big_volume_1m_usd
    /\ Val(published[1].payload.vol_1m) = windows[Val(sigCall.token_id)].total

(***************************************************************************)
(* The refresh loop beside the order-book registry: the feed delivers full *)
(* snapshots of the tokens of the last subscription, with sequence numbers *)
(* 1 and 3.                                                                *)
(***************************************************************************)
UniverseSeqs == {[kind |-> "int", v |-> 1], [kind |-> "int", v |-> MaxSeq]}

Subscribed == {token_ids[i] : i \in DOMAIN token_ids}

UniverseSnapshotStep ==
    /\ \E t \in Subscribed, raw_seq \in UniverseSeqs :
          apply_snapshot([token_id |-> t, bids |-> <<>>, asks |-> <<>>], raw_seq)
    /\ UNCHANGED <<consumeVars, sigVars, feedVars, muxVars, refreshVars, extraVars>>

UniverseRefreshStep ==
    /\ \E discovery \in DiscoveryResults :
          RefreshIteration(discovery, 0, FALSE)
    /\ UNCHANGED otherThanRefresh

NextUniverse == UniverseSnapshotStep \/ UniverseRefreshStep \/ RefreshSleepStep

SpecUniverse == InitRefreshSpec /\ [][NextUniverse]_vars

(***************************************************************************)
(* Claims about update_registry and the consume task, checked on           *)
(* SpecSuspend.                                                            *)
(***************************************************************************)
ActiveMarkets == {token_meta[t].market_id : t \in DOMAIN token_meta}

\* C26: in every reachable state the engine holds a window, a cooldown, a last
\* price or a best quote only for tokens of the current registry, and a merge
\* bucket only for a market that has a token in it.
C26_PerTokenStateOnlyForRegistry ==
    /\ DOMAIN windows \subseteq DOMAIN token_meta
    /\ \A key \in DOMAIN cooldowns : key[1] \in DOMAIN token_meta
    /\ DOMAIN last_price \subseteq DOMAIN token_meta
    /\ DOMAIN best_quote \subseteq DOMAIN token_meta
    /\ \A key \in DOMAIN trade_buckets : key[1] \in ActiveMarkets

\* The part of C26 that holds: update_registry itself leaves nothing behind.
C26_RegistryUpdatePurges ==
    [][sigCall'.op = "update_registry" => C26_PerTokenStateOnlyForRegistry']_vars

(***************************************************************************)
(* Claims about the merge bucket, checked on SpecSignal.                   *)
(***************************************************************************)
\* The step was a handle_trade that deposited its trade into a merge bucket.
Deposited ==
    /\ TradeHandled
    /\ cfg.merge_window_sec > 0
    /\ GatingPasses(sigCall'.price)
    /\ \/ is_big_trade(sigCall'.price * sigCall'.size)
       \/ is_volume_spike(windows'[Val(sigCall'.token_id)].total)

DepositKey == _bucket_key(token_meta[Val(sigCall'.token_id)])
DepositNotional == sigCall'.price * sigCall'.size
DepositVol == windows'[Val(sigCall'.token_id)].total
BucketBefore ==
    IF DepositKey \in DOMAIN trade_buckets
    THEN trade_buckets[DepositKey]
    ELSE NewBucket(token_meta[Val(sigCall'.token_id)])

\* A deposit publishes nothing; the first one for a key schedules the flush
\* merge_window_sec later and the following ones leave that flush as it is;
\* a big trade adds its notional and size to the totals.
DepositAccumulates ==
    Deposited =>
        /\ published' = <<>>
        /\ DepositKey \in DOMAIN trade_buckets'
        /\ trade_buckets'[DepositKey].due = BucketBefore.due
        /\ DepositKey \notin DOMAIN trade_buckets => BucketBefore.due = now + cfg.merge_window_sec
        /\ trade_buckets'[DepositKey].total_notional =
              BucketBefore.total_notional
                 + (IF is_big_trade(DepositNotional) THEN DepositNotional ELSE 0)
        /\ trade_buckets'[DepositKey].total_size =
              BucketBefore.total_size
                 + (IF is_big_trade(DepositNotional) THEN sigCall'.size ELSE 0)
        /\ trade_buckets'[DepositKey].has_big_trade =
              (BucketBefore.has_big_trade \/ is_big_trade(DepositNotional))

\* The bucket keeps the largest window total among its volume-spike deposits.
DepositTracksSpikeVolume ==
    Deposited =>
        trade_buckets'[DepositKey].max_vol_1m =
            IF ~is_volume_spike(DepositVol) THEN BucketBefore.max_vol_1m
            ELSE IF BucketBefore.max_vol_1m = None THEN Some(DepositVol)
            ELSE Some(Max({Val(BucketBefore.max_vol_1m), DepositVol}))

\* The bucket keeps the largest window total among all its deposits.
DepositTracksEveryVolume ==
    Deposited =>
        trade_buckets'[DepositKey].max_vol_1m =
            IF BucketBefore.max_vol_1m = None THEN Some(DepositVol)
            ELSE Some(Max({Val(BucketBefore.max_vol_1m), DepositVol}))

\* A flush takes its bucket away and publishes at most one event, made of what
\* the bucket gathered.
FlushPublishesTheBucket ==
    sigCall'.op = "_flush_trade_bucket" =>
        \E key \in DOMAIN trade_buckets :
            LET bucket == trade_buckets[key] IN
            /\ now >= bucket.due
            /\ trade_buckets' = DropKey(trade_buckets, key)
            /\ Len(published') <= 1
            /\ Len(published') = 1 =>
                  LET payload == published'[1].payload IN
                  IF bucket.has_big_trade
                  THEN /\ payload.signal = "big_trade"
                       /\ payload.notional = bucket.total_notional
                       /\ payload.size = bucket.total_size
                       /\ payload.price = Ratio(bucket.total_notional, bucket.total_size)
                       /\ payload.vol_1m = bucket.max_vol_1m
                  ELSE /\ payload.signal = "volume_spike_1m"
                       /\ Some(payload.vol_1m) = bucket.max_vol_1m

\* C25 (as stated): every deposit before the flush goes into one event that is
\* published by the flush and not before, a big_trade of the summed big-trade
\* notionals and sizes when a deposit was a big trade, else a volume_spike_1m,
\* and its vol_1m is the largest window total the deposits have seen.
C25_FlushCarriesMaxWindowTotalSeen ==
    [][DepositAccumulates /\ DepositTracksEveryVolume /\ FlushPublishesTheBucket]_vars

\* C25 (amended): as above, with vol_1m the largest window total among the
\* deposits that were volume spikes, and none when no deposit was one.
C25_FlushCarriesMaxSpikeWindowTotal ==
    [][DepositAccumulates /\ DepositTracksSpikeVolume /\ FlushPublishesTheBucket]_vars

\* A flush has published the big_trade of two merged big trades.
C25_Witness ==
    /\ sigCall.op = "_flush_trade_bucket"
    /\ Len(published) = 1
    /\ published[1].payload.signal = "big_trade"
    /\ published[1].payload.size = 4
    /\ published[1].payload.notional = 240
    /\ published[1].payload.price = Ratio(240, 4)

(***************************************************************************)
(* Claims about _maybe_emit_major_change, checked on SpecMajor.            *)
(***************************************************************************)
\* The step handed an observation for a token with a stored previous price to
\* _maybe_emit_major_change: a trade or the mid of a two-sided book of a
\* registered, unexpired token, from an enabled source.
MajorObserved ==
    /\ cfg.major_change_pct > 0
    /\ sigCall'.op \in {"handle_trade", "handle_book"}
    /\ LET token_id == Val(sigCall'.token_id) IN
       /\ token_id \in DOMAIN token_meta
       /\ ~_is_market_expired(token_meta[token_id], now)
       /\ token_id \in DOMAIN last_price
       /\ IF sigCall'.op = "handle_trade"
          THEN cfg.major_change_source \in {"trade", "any"}
          ELSE cfg.major_change_source \in {"book", "any"} /\ token_id \in DOMAIN best_quote'

ObservedToken == Val(sigCall'.token_id)
PrevPrice == last_price[ObservedToken][1]
CurPrice == last_price'[ObservedToken][1]
AbsDelta == Abs(CurPrice - PrevPrice)

\* The spread the observation comes with: of the book just handled, else of the
\* cached best quote of the last book, else unknown.
KnownSpread ==
    LET quotes == IF sigCall'.op = "handle_book" THEN best_quote' ELSE best_quote IN
    IF ObservedToken \in DOMAIN quotes
    THEN Some(Max({0, quotes[ObservedToken][2] - quotes[ObservedToken][1]}))
    ELSE None

SpreadGateApplies ==
    cfg.major_change_spread_gate_k > 0 /\ KnownSpread # None /\ Val(KnownSpread) > 0

WithinSpreadGate == AbsDelta <= cfg.major_change_spread_gate_k * Val(KnownSpread)

LowPriceRegime ==
    /\ cfg.major_change_low_price_abs > 0
    /\ cfg.major_change_low_price_max > 0
    /\ Min({PrevPrice, CurPrice}) <= cfg.major_change_low_price_max

ThresholdMet ==
    IF LowPriceRegime
    THEN AbsDelta >= cfg.major_change_low_price_abs
    ELSE AbsDelta * 100 >= cfg.major_change_pct * PrevPrice

WithinMajorWindow ==
    /\ PrevPrice > 0
    /\ last_price'[ObservedToken][2] - last_price[ObservedToken][2] <= cfg.major_change_window_ms

\* C23: an observation with a positive previous price within the window is
\* judged by one threshold only: in the low-price regime a major_change is
\* published exactly when |cur - prev| >= low_price_abs, whatever the percentage;
\* otherwise exactly when |cur - prev| / prev * 100 >= major_change_pct; the
\* boundary publishes (the spread gate, min notional and cooldown letting through).
C23_OneThresholdDecidesMajorChange ==
    [][(/\ MajorObserved
        /\ WithinMajorWindow
        /\ ~(SpreadGateApplies /\ WithinSpreadGate)
        /\ cfg.major_change_min_notional = 0
        /\ CooldownOver(ObservedToken, "major_change"))
       => (PublishedOf("major_change") # {} <=> ThresholdMet)]_vars

\* A major_change published in the low-price regime for a move below major_change_pct.
C23_Witness ==
    /\ Len(published) = 1
    /\ published[1].payload.signal = "major_change"
    /\ cfg.major_change_low_price_abs > 0
    /\ Min({published[1].payload.prev_price, published[1].payload.price})
          <= cfg.major_change_low_price_max
    /\ Abs(published[1].payload.price - published[1].payload.prev_price) * 100
          < cfg.major_change_pct * published[1].payload.prev_price

\* C24: with major_change_spread_gate_k > 0 and a positive spread known, no
\* major_change is published for a move of at most k * spread, and a larger
\* move that meets the threshold is published.
C24_SpreadGateBlocksSmallMoves ==
    [][(MajorObserved /\ SpreadGateApplies)
       => /\ WithinSpreadGate => PublishedOf("major_change") = {}
          /\ (/\ ~WithinSpreadGate
              /\ WithinMajorWindow
              /\ ThresholdMet
              /\ cfg.major_change_min_notional = 0
              /\ CooldownOver(ObservedToken, "major_change"))
             => PublishedOf("major_change") # {}]_vars

\* A trade moved the price by more than k times the spread of the cached quote
\* and its major_change was published.
C24_Witness ==
    /\ sigCall.op = "handle_trade"
    /\ cfg.major_change_spread_gate_k > 0
    /\ Val(sigCall.token_id) \in DOMAIN best_quote
    /\ best_quote[Val(sigCall.token_id)][2] > best_quote[Val(sigCall.token_id)][1]
    /\ Len(published) = 1
    /\ published[1].payload.signal = "major_change"
    /\ Abs(published[1].payload.price - published[1].payload.prev_price)
          > cfg.major_change_spread_gate_k
              * (best_quote[Val(sigCall.token_id)][2] - best_quote[Val(sigCall.token_id)][1])

(***************************************************************************)
(* Claims about the subscriptions of ClobWebSocketFeed (SpecFeed).          *)
(***************************************************************************)
FramesOf(frames, operation) ==
    {frames[i] : i \in {j \in DOMAIN frames : frames[j].operation = Some(operation)}}

ExpectedFrames(operation, ids) ==
    IF ids = {} THEN {} ELSE {OperationFrame(operation, ids)}

\* C14: subscribe(S) on an open connection with a non-empty subscribed set
\* sends one subscribe operation for exactly S minus subscribed and one
\* unsubscribe operation for exactly subscribed minus S, no frame for an empty
\* difference and no other frame, and leaves subscribed_ids = desired_ids = S.
C14_SubscribeSendsTheDifference ==
    [][(feedCall'.op = "subscribe" /\ ws_open /\ subscribed_ids # {}) =>
          LET S == feedCall'.token_ids
              to_add == S \ subscribed_ids
              to_remove == subscribed_ids \ S
          IN /\ FramesOf(sent', "subscribe") = ExpectedFrames("subscribe", to_add)
             /\ FramesOf(sent', "unsubscribe") = ExpectedFrames("unsubscribe", to_remove)
             /\ Len(sent') = Cardinality(ExpectedFrames("subscribe", to_add))
                             + Cardinality(ExpectedFrames("unsubscribe", to_remove))
             /\ subscribed_ids' = S
             /\ desired_ids' = S]_vars

\* A subscribe on an open connection that both added and removed tokens.
C14_Witness ==
    /\ feedCall.op = "subscribe"
    /\ feedCall.open
    /\ ~feedCall.initial
    /\ FramesOf(sent, "subscribe") # {}
    /\ FramesOf(sent, "unsubscribe") # {}
    /\ subscribed_ids = desired_ids

(***************************************************************************)
(* Claims about messages() and close() of ClobWebSocketFeed (SpecMessages). *)
(***************************************************************************)
\* C15: after every connection and reconnection the full desired token set is
\* sent in the initial form (type = channel) before a frame of that connection
\* is received, whatever was subscribed on the connection before; so a
\* subscribe made while disconnected is delivered on the next connection.
C15_ConnectionSendsFullDesiredSet ==
    [][/\ (msg_pc = "connecting" /\ msg_pc' = "receiving") =>
            /\ ws_open'
            /\ sent' = (IF desired_ids = {} THEN <<>> ELSE <<InitialFrame(desired_ids)>>)
            /\ subscribed_ids' = desired_ids
       /\ (msg_pc' = "receiving" /\ msg_pc \notin {"receiving", "yielded"}) =>
            msg_pc = "connecting"
       /\ msg_pc' = "yielded" => msg_pc \in {"receiving", "yielded"}]_vars

\* A reconnection that found another set subscribed than the one desired.
C15_Witness ==
    /\ msg_pc = "receiving"
    /\ feedCall.op = "connect"
    /\ prev_subscribed # {}
    /\ prev_subscribed # desired_ids
    /\ sent = <<InitialFrame(desired_ids)>>

\* C16: the reconnect delay starts at reconnect_backoff_sec, doubles with each
\* consecutive failure up to reconnect_max_sec, and starts again at
\* reconnect_backoff_sec once an inbound frame has been processed: failures
\* counts the failures since the last processed frame.
C16_DelayStartsAgainAfterAMessage ==
    [][(msg_pc' = "backoff" /\ msg_pc # "backoff") => sleeping' = DelayAfter(failures)]_vars

IsPing(item) ==
    IF item.isdict THEN Hint(item.type, item.event_type) = "ping"
    ELSE Lower(Strip(item.text)) = "ping"

IsPong(item) ==
    IF item.isdict THEN Hint(item.type, item.event_type) = "pong"
    ELSE Lower(Strip(item.text)) = "pong"

PingsIn(items) == Cardinality({i \in DOMAIN items : IsPing(items[i])})

C18_NothingOpenAfterClose ==
    close_pc = "returned" => (~ws_open /\ ping_task # "running")

(***************************************************************************)
(* Claims about the refresh loop (checked under SpecRefresh, where          *)
(* refreshLog' lists the calls of the iteration of this step).              *)
(***************************************************************************)
SomeCallFailed(log) == \E i \in 1..Len(log) : ~log[i].ok

ErrorReported(log) ==
    \E i \in 1..Len(log) : /\ log[i].what = "HealthEvent"
                           /\ log[i].arg = "refresh_error"
                           /\ log[i].ok

\* C11: a failure never ends the refresh loop: whatever call of an iteration
\* raises (discovery, subscription, the publication of an event), a HealthEvent
\* refresh_error is emitted and the loop goes on to its sleep.
C11_RefreshLoopSurvivesFailures ==
    [][SomeCallFailed(refreshLog') =>
            /\ refresh_pc' = "sleeping"
            /\ ErrorReported(refreshLog')]_vars

\* The step is an iteration of _refresh_loop.
IterationDone == refresh_pc = "ready" /\ refresh_pc' # "ready"

Entries(what) == {i \in DOMAIN refreshLog' : refreshLog'[i].what = what}

\* _handle_refresh ran to its end: its last awaited call returned.
HandleFinished == \E i \in Entries("CandidateSelected") : refreshLog'[i].ok

\* C27: a refresh before the first completed one publishes no MarketLifecycle,
\* and the completed one records the market set; every later refresh publishes
\* exactly one MarketLifecycle new for each id that is present now and absent
\* from the recorded set, exactly one removed for each id recorded and absent
\* now, and none for an id in both.
C27_LifecycleIsTheDiffOfTheRecordedSet ==
    [][IterationDone =>
        LET L == Entries("MarketLifecycle")
            Event(i) == refreshLog'[i].arg
        IN /\ ~lifecycle_ready => L = {}
           /\ \A i \in L : \/ Event(i)[2] = "removed" /\ Event(i)[1] \in markets_by_id
                           \/ Event(i)[2] = "new" /\ Event(i)[1] \notin markets_by_id
           /\ \A i, j \in L : Event(i) = Event(j) => i = j
           /\ HandleFinished =>
                /\ lifecycle_ready'
                /\ lifecycle_ready =>
                     {Event(i) : i \in L} =
                         {<<id, "new">> : id \in markets_by_id' \ markets_by_id}
                            \cup {<<id, "removed">> : id \in markets_by_id \ markets_by_id'}]_vars

\* A completed refresh has published a removed and a new MarketLifecycle.
C27_Witness ==
    /\ lifecycle_ready
    /\ \E i \in DOMAIN refreshLog :
          refreshLog[i].what = "CandidateSelected" /\ refreshLog[i].ok
    /\ \E i, j \in DOMAIN refreshLog :
          /\ refreshLog[i].what = "MarketLifecycle" /\ refreshLog[i].arg[2] = "removed"
          /\ refreshLog[j].what = "MarketLifecycle" /\ refreshLog[j].arg[2] = "new"

\* C28: after a refresh whose feed.subscribe call succeeded, the recorded
\* token-id list is the list that was passed to the feed.
C28_RecordedListIsTheSubscribedList ==
    [][IterationDone =>
        \A i \in DOMAIN refreshLog' :
            (refreshLog'[i].call = "subscribe" /\ refreshLog'[i].ok)
                => token_ids' = refreshLog'[i].arg]_vars

\* The window of this iteration, in ticks.
Gap == IF last_refresh_start_ms = None THEN RefreshInterval
       ELSE now - Val(last_refresh_start_ms)

\* The iteration came to _emit_unsubscribable_signals.
PollingReached == IterationDone /\ last_refresh_start_ms' = Some(now)

MonitoringReached ==
    \A i \in DOMAIN refreshLog' :
        ~refreshLog'[i].ok => refreshLog'[i].what \in {"MonitoringStatus", "HealthEvent"}

RECURSIVE SumNotional(_)
SumNotional(entries) ==
    IF entries = <<>> THEN 0 ELSE Head(entries)[2] + SumNotional(Tail(entries))

CooldownKey(event) == <<event.token_id, event.payload.signal>>

\* The events of one handler are for distinct (token, signal) pairs.
OneEventPerKey(events) ==
    \A i, j \in DOMAIN events : i # j => CooldownKey(events[i]) # CooldownKey(events[j])

\* C5: for every (token_id, signal) pair, whatever handle_trade, handle_book,
\* bucket flushes and update_registry calls are made, an emission of the signal
\* for the token comes at least cooldown_sec after the previous emission of that
\* signal for that token.
C5_EmissionsAreCooldownApart ==
    [][/\ OneEventPerKey(published')
       /\ \A i \in DOMAIN published' :
            CooldownKey(published'[i]) \in DOMAIN lastEmit =>
                published'[i].ts_ms - lastEmit[CooldownKey(published'[i])]
                    >= cfg.cooldown_ms]_vars

\* C5 as the code has it: an emission comes at least cooldown_sec after the
\* previous emission of the same signal for the same token unless
\* update_registry dropped the token from the registry in between (which
\* discards the token's cooldown entries).
C5_EmissionsAreCooldownApartWhileRegistered ==
    [][/\ OneEventPerKey(published')
       /\ \A i \in DOMAIN published' :
            (/\ CooldownKey(published'[i]) \in DOMAIN lastEmit
             /\ CooldownKey(published'[i]) \notin droppedSince) =>
                published'[i].ts_ms - lastEmit[CooldownKey(published'[i])]
                    >= cfg.cooldown_ms]_vars

\* A signal is emitted a second time for a token that stayed registered since
\* the first emission.
C5_Witness ==
    /\ cfg.cooldown_ms > 0
    /\ sigCall.op \in {"handle_trade", "handle_book", "_flush_trade_bucket"}
    /\ \E i \in DOMAIN published :
          /\ CooldownKey(published[i]) \in reEmitted
          /\ cooldowns[CooldownKey(published[i])] = now

\* C6: after handle_trade on a registered, non-expired token, every entry kept
\* in the token's window is no older than now - 60 s and the window's total is
\* the sum of the notionals of the entries it keeps.
C6_WindowKeepsOnlyRecentTrades ==
    (/\ sigCall.op = "handle_trade"
     /\ Val(sigCall.token_id) \in DOMAIN token_meta
     /\ ~_is_market_expired(token_meta[Val(sigCall.token_id)], now)) =>
        LET window == windows[Val(sigCall.token_id)] IN
        /\ \A i \in DOMAIN window.entries : window.entries[i][1] >= now - WindowTicks
        /\ window.total = SumNotional(window.entries)


(***************************************************************************)
(* Claims about the websocket feed                                         *)
(***************************************************************************)
SentIds == UNION {sent[i].assets_ids : i \in DOMAIN sent}

\* C7: after subscribe(S) on an open connection every frame sent is at most
\* max_frame_bytes long and every initial-form frame carries type = channel;
\* when the initial form is used the union of the assets_ids of the frames is
\* S, and a set whose single-frame encoding is over the limit goes out as two
\* or more frames.
C7_SubscribeFramesFitTheLimit ==
    (feedCall.op = "subscribe" /\ feedCall.open) =>
        /\ \A i \in DOMAIN sent : FrameBytes(sent[i]) <= max_frame_bytes
        /\ \A i \in DOMAIN sent :
              sent[i].operation = None => sent[i].type = Some(channel)
        /\ feedCall.initial => SentIds = feedCall.token_ids
        /\ (feedCall.initial /\ FrameBytes(InitialFrame(feedCall.token_ids)) > max_frame_bytes)
              => Len(sent) >= 2

(***************************************************************************)
(* Claims about the multiplex sink                                         *)
(***************************************************************************)
IsSink(name) == name \in SeqRange(muxCfg.sinks)

\* C8: publish calls every resolved target that is a sink, in target order,
\* also after an earlier target raised, and raises or returns only after the
\* last of them; with sinks a (succeeds) and b (raises) and required_sinks =
\* [b], publish raises and a has received the event.
C8_EveryTargetIsCalledInOrder ==
    muxCall.op = "publish" =>
        /\ called = SelectSeq(muxCall.targets, IsSink)
        /\ ("b" \in muxCall.failing /\ "a" \notin muxCall.failing
            /\ muxCfg.required = {"b"} /\ {"a", "b"} \subseteq SeqRange(muxCall.targets))
              => (raised # None /\ "a" \in SeqRange(called))

\* A target raised, a later target was called all the same, and publish raised.
C8_Witness ==
    /\ muxCall.op = "publish"
    /\ raised # None
    /\ \E i, j \in DOMAIN called :
          i < j /\ called[i] \in errors /\ called[j] \notin errors

\* C9: publish raises exactly when a failing target sink is listed in
\* required_sinks, the error names exactly the failing sinks listed there, and
\* failures of sinks not listed are swallowed.
C9_RaisesForFailingRequiredSinksOnly ==
    muxCall.op = "publish" =>
        LET failed == {name \in SeqRange(muxCall.targets) :
                            IsSink(name) /\ name \in muxCall.failing}
        IN /\ errors = failed
           /\ raised = IF failed \cap muxCfg.required = {} THEN None
                       ELSE Some(failed \cap muxCfg.required)

\* A required and a non-required sink fail: the error names the required one only.
C9_Witness ==
    /\ muxCall.op = "publish"
    /\ raised # None
    /\ errors \ Val(raised) # {}

\* C10: with mode = required_sinks, a failure of any targeted sink makes
\* publish raise an error that names the failing sinks, listed in
\* required_sinks or not.
C10_ModeMakesEverySinkRequired ==
    (muxCall.op = "publish" /\ muxCfg.mode = "required_sinks" /\ errors # {}) =>
        (raised # None /\ Val(raised) = errors)

(***************************************************************************)
(* Further claims about the order-book registry, checked on SpecBook.      *)
(***************************************************************************)
\* C33: apply_price_change for a token the registry holds no state of returns
\* snapshot = null and resync_needed = false, with no expected or received
\* sequence number, and leaves the registry as it was, whatever sequence
\* number the payload carries.
C33_DeltaWithoutSnapshotIsDropped ==
    [][(/\ lastCall'.op = "apply_price_change"
        /\ lastCall'.token_id # None
        /\ Val(lastCall'.token_id) \notin DOMAIN books)
       => /\ lastResult' = Result(lastCall'.token_id, None, FALSE, None, None)
          /\ books' = books]_vars

\* A price_change with a sequence number was dropped for want of a book.
C33_Witness ==
    /\ lastCall.op = "apply_price_change"
    /\ lastCall.token_id # None
    /\ lastCall.seq # None
    /\ Val(lastCall.token_id) \notin DOMAIN books
    /\ lastResult = Result(lastCall.token_id, None, FALSE, None, None)

(***************************************************************************)
(* Further claims about _maybe_emit_major_change, checked on SpecMajor.    *)
(***************************************************************************)
\* The step handed an observation of a registered, unexpired token to
\* _maybe_emit_major_change, whether or not a previous one is stored.
MajorEvaluated ==
    /\ cfg.major_change_pct > 0
    /\ sigCall'.op \in {"handle_trade", "handle_book"}
    /\ ObservedToken \in DOMAIN token_meta
    /\ ~_is_market_expired(token_meta[ObservedToken], now)
    /\ IF sigCall'.op = "handle_trade"
       THEN cfg.major_change_source \in {"trade", "any"}
       ELSE cfg.major_change_source \in {"book", "any"} /\ ObservedToken \in DOMAIN best_quote'

\* The price of the observation: the trade's price, or the mid of the book.
ObservedPrice ==
    IF sigCall'.op = "handle_trade" THEN sigCall'.price
    ELSE (best_quote'[ObservedToken][1] + best_quote'[ObservedToken][2]) \div 2

C37_RemovedMarketsBucketNeverFlushes ==
    [][/\ sigCall'.op = "update_registry" =>
            /\ \A key \in DOMAIN trade_buckets' :
                  key[1] \in {token_meta'[t].market_id : t \in DOMAIN token_meta'}
            /\ \A key \in sigCall'.cancelled : key \notin DOMAIN trade_buckets'
            /\ published' = <<>>
       /\ \A key \in DOMAIN trade_buckets' \ DOMAIN trade_buckets :
            /\ Deposited
            /\ key = DepositKey
            /\ trade_buckets'[key].due = now + cfg.merge_window_sec
            /\ trade_buckets'[key].total_notional =
                  IF is_big_trade(DepositNotional) THEN DepositNotional ELSE 0
            /\ trade_buckets'[key].total_size =
                  IF is_big_trade(DepositNotional) THEN sigCall'.size ELSE 0
            /\ trade_buckets'[key].max_vol_1m =
                  IF is_volume_spike(DepositVol) THEN Some(DepositVol) ELSE None
       /\ FlushPublishesTheBucket]_vars

\* update_registry has removed the market of a pending bucket.
C37_Witness ==
    /\ sigCall.op = "update_registry"
    /\ sigCall.cancelled # {}
    /\ trade_buckets = EmptyMap
    /\ cfg.merge_window_sec > 0

(***************************************************************************)
(* Claims about the life of an OrderBookState, checked on SpecUniverse.    *)
(***************************************************************************)
\* C39: the OrderBookState of a token is discarded when the token leaves the
\* monitored set, so that a token that enters the set holds no book state and
\* no last_seq for its first snapshot to be compared with.
C39_EnteringTokenHasNoBookState ==
    [][\A t \in {token_ids'[i] : i \in DOMAIN token_ids'} \ Subscribed :
          t \notin DOMAIN books']_vars


(***************************************************************************)
(* domain/selection.py: select_primary_markets and select_top_markets.     *)
(* A market is a record of the fields the two functions read; its question *)
(* is the set of the keywords it contains.  The state holds the arguments  *)
(* of a call, a permutation of the list, and the results once a step has   *)
(* applied the function to both and again to its own result.               *)
(***************************************************************************)
Latest == 1000000

Market(id, topic, liq, vol) ==
    [market_id |-> id, topic_key |-> topic, question |-> {topic},
     liquidity |-> liq, volume_24h |-> vol, end_ts |-> None]

\* The three markets of tests/test_selection.py, one more that ties with
\* market 2 on every priority key, and one without liquidity.
SelectionMarkets ==
    {Market("1", "btc", Some(10), Some(50)), Market("2", "btc", Some(25), Some(10)),
     Market("3", "oil", Some(20), Some(60)), Market("4", "btc", Some(25), Some(10)),
     Market("5", "oil", None, Some(60))}

MaxMarkets == 3

OrZero(opt) == IF opt = None THEN 0 ELSE Val(opt)

_priority_value(market, key) ==
    CASE key = "liquidity" -> 0 - OrZero(market.liquidity)
      [] key = "volume_24h" -> 0 - OrZero(market.volume_24h)
      [] key = "end_ts" -> (IF market.end_ts = None \/ Val(market.end_ts) = 0
                            THEN Latest ELSE Val(market.end_ts))
      [] OTHER -> 0

\* the sort key: tuple(_priority_value(m, key) for key in priority)
SortKey(market, priority) ==
    [i \in DOMAIN priority |-> _priority_value(market, priority[i])]

\* Python's order on tuples of equal length
RECURSIVE TupleLess(_, _)
TupleLess(a, b) ==
    IF a = <<>> THEN FALSE
    ELSE IF Head(a) # Head(b) THEN Head(a) < Head(b)
    ELSE TupleLess(Tail(a), Tail(b))

\* list.sort(key=...): stable, so markets with equal keys keep their order
RECURSIVE StableInsert(_, _, _)
StableInsert(sorted, market, priority) ==
    IF sorted = <<>> THEN <<market>>
    ELSE IF TupleLess(SortKey(market, priority), SortKey(Head(sorted), priority))
         THEN <<market>> \o sorted
         ELSE <<Head(sorted)>> \o StableInsert(Tail(sorted), market, priority)

RECURSIVE StableSort(_, _)
StableSort(markets, priority) ==
    IF markets = <<>> THEN <<>>
    ELSE StableInsert(StableSort(SubSeq(markets, 1, Len(markets) - 1), priority),
                      markets[Len(markets)], priority)

FirstN(seq, n) == SubSeq(seq, 1, IF n < Len(seq) THEN n ELSE Len(seq))

TopicOf(market) == market.topic_key

\* grouped: the keys in the order of their first market (dict insertion order)
RECURSIVE GroupKeys(_)
GroupKeys(markets) ==
    IF markets = <<>> THEN <<>>
    ELSE LET rest == GroupKeys(SubSeq(markets, 1, Len(markets) - 1))
             key == TopicOf(markets[Len(markets)])
         IN  IF \E i \in DOMAIN rest : rest[i] = key THEN rest ELSE Append(rest, key)

RECURSIVE ExtendGroups(_, _, _, _)
ExtendGroups(keys, markets, priority, max_per_topic) ==
    IF keys = <<>> THEN <<>>
    ELSE LET group == SelectSeq(markets, LAMBDA m : TopicOf(m) = Head(keys))
         IN  FirstN(StableSort(group, priority), max_per_topic)
                 \o ExtendGroups(Tail(keys), markets, priority, max_per_topic)

select_primary_markets(markets, priority, max_per_topic) ==
    ExtendGroups(GroupKeys(markets), markets, priority, max_per_topic)

select_top_markets(markets, top_k, hot_sort, min_liquidity, keyword_allow, keyword_block) ==
    LET Kept(m) ==
            /\ ~(min_liquidity # None /\ OrZero(m.liquidity) < Val(min_liquidity))
            /\ ~(keyword_allow # {} /\ m.question \cap keyword_allow = {})
            /\ ~(keyword_block # {} /\ m.question \cap keyword_block # {})
        filtered == SelectSeq(markets, Kept)
    IN  FirstN(StableSort(filtered, hot_sort), top_k)

\* the lists of distinct markets, and the permutations of a list
MarketLists ==
    UNION {{s \in [1..n -> SelectionMarkets] : \A i, j \in 1..n : i # j => s[i] # s[j]}
           : n \in 0..MaxMarkets}
Elements(seq) == {seq[i] : i \in DOMAIN seq}
PermutationsOf(seq) ==
    {p \in [DOMAIN seq -> Elements(seq)] : Elements(p) = Elements(seq)}

Priorities == {<<"liquidity">>, <<"liquidity", "volume_24h", "end_ts">>}
TopCalls ==
    {[top_k |-> k, min_liquidity |-> ml, keyword_allow |-> {}, keyword_block |-> kb]
     : k \in 1..2, ml \in {None, Some(20)}, kb \in {{}, {"oil"}}}
PrimaryCalls == {[max_per_topic |-> k] : k \in 1..2}

SelectionInputs ==
    UNION {{[op |-> "input", markets |-> ms, permuted |-> p, priority |-> pr]
            : p \in PermutationsOf(ms), pr \in Priorities} : ms \in MarketLists}

Selected(op, markets, priority, args, out, out_permuted, again) ==
    [op |-> op, markets |-> markets, priority |-> priority, args |-> args,
     out |-> out, out_permuted |-> out_permuted, again |-> again]

SelectTop(args) ==
    /\ selection.op = "input"
    /\ LET Top(ms) == select_top_markets(ms, args.top_k, selection.priority,
                          args.min_liquidity, args.keyword_allow, args.keyword_block)
       IN  selection' = Selected("select_top_markets", selection.markets,
                            selection.priority, args, Top(selection.markets),
                            Top(selection.permuted), Top(Top(selection.markets)))
    /\ UNCHANGED <<webhook, aggregator, runner, sending>>

SelectPrimary(args) ==
    /\ selection.op = "input"
    /\ LET Primary(ms) == select_primary_markets(ms, selection.priority, args.max_per_topic)
       IN  selection' = Selected("select_primary_markets", selection.markets,
                            selection.priority, args, Primary(selection.markets),
                            Primary(selection.permuted), Primary(Primary(selection.markets)))
    /\ UNCHANGED <<webhook, aggregator, runner, sending>>

otherThanExtra == <<bookVars, consumeVars, sigVars, feedVars, muxVars, refreshVars>>

SelectTopStep == (\E args \in TopCalls : SelectTop(args)) /\ UNCHANGED otherThanExtra
SelectPrimaryStep ==
    (\E args \in PrimaryCalls : SelectPrimary(args)) /\ UNCHANGED otherThanExtra

InitSelect ==
    /\ InitBook
    /\ InitComponent
    /\ InitEngine(DefaultConfig)
    /\ InitAdapters
    /\ InitWebhook /\ InitAggregator /\ InitRunner /\ InitSending
    /\ selection \in SelectionInputs

NextSelect == SelectTopStep \/ SelectPrimaryStep

SpecSelect == InitSelect /\ [][NextSelect]_vars

(***************************************************************************)
(* Claims about the selection functions                                    *)
(***************************************************************************)
SelectionApplied == selection.op \in {"select_top_markets", "select_primary_markets"}

\* C34 (the second half): applying a selection function to its own output
\* returns that output unchanged.
SelectionIsIdempotent == SelectionApplied => selection.again = selection.out

\* C34: for every permutation of the same input list the set of selected
\* markets is the same, and applying the function to its own output returns
\* that output unchanged.
C34_SelectionOrderIndependentAndIdempotent ==
    SelectionApplied =>
        /\ Elements(selection.out_permuted) = Elements(selection.out)
        /\ selection.again = selection.out


(***************************************************************************)
(* adapters/discord_sink.py: DiscordWebhookSink._post_payload.  A step is  *)
(* one request with the decision the code takes on its outcome, or the end *)
(* of the sleep before the next request.  An outcome is a transport error  *)
(* (httpx.RequestError) or a response with its status and the retry_after  *)
(* it carries; delays are in quarters of a second.                         *)
(***************************************************************************)
MaxRetries == 2

Statuses == {200, 299, 300, 404, 429, 499, 500, 599, 600}
RetryAfters == {None, Some(0), Some(20)}
Outcomes ==
    {[kind |-> "error", status |-> 0, retry_after |-> None]}
        \cup {[kind |-> "response", status |-> s, retry_after |-> None] : s \in Statuses}
        \cup {[kind |-> "response", status |-> s, retry_after |-> ra]
              : s \in {429, 500}, ra \in RetryAfters}

\* _retry_after(resp): None when the response names no delay
_retry_after(resp) == resp.retry_after

\* _backoff_delay(attempt): min(0.5 * 2**attempt + jitter, 30.0), jitter < 0.25
_backoff_delay(attempt) == Min({2 * (2 ^ attempt), 120})

ExhaustedOneLater(attempt, max_retries) == attempt > max_retries

\* attempt >= self._max_retries
Exhausted(attempt, max_retries) == attempt >= max_retries

\* resp.status_code == 429 or 500 <= resp.status_code < 600
RetryStatus(status) == status = 429 \/ (500 <= status /\ status < 600)

\* 200 <= resp.status_code < 300
OkStatus(status) == 200 <= status /\ status < 300

_post_payload_begin(max_retries) ==
    /\ webhook.pc = "idle"
    /\ webhook' = [pc |-> "posting", attempt |-> 0, max_retries |-> Max({0, max_retries}),
                   outcomes |-> <<>>, delay |-> 0]

\* one pass of the loop body up to its sleep, return or raise
_post_payload_request(outcome) ==
    /\ webhook.pc = "posting"
    /\ LET w == [webhook EXCEPT !.outcomes = Append(@, outcome)]
           delay == IF outcome.kind = "error" \/ _retry_after(outcome) \in {None, Some(0)}
                    THEN _backoff_delay(webhook.attempt)
                    ELSE Val(_retry_after(outcome))
       IN  webhook' =
             IF outcome.kind = "error" \/ RetryStatus(outcome.status)
             THEN IF Exhausted(webhook.attempt, webhook.max_retries)
                  THEN [w EXCEPT !.pc = "raised"]
                  ELSE [w EXCEPT !.pc = "sleeping", !.delay = delay]
             ELSE IF OkStatus(outcome.status)
                  THEN [w EXCEPT !.pc = "returned"]
                  ELSE [w EXCEPT !.pc = "raised"]

\* the sleep ends: attempt += 1; continue
_post_payload_retry ==
    /\ webhook.pc = "sleeping"
    /\ webhook' = [webhook EXCEPT !.pc = "posting", !.attempt = @ + 1, !.delay = 0]

otherThanWebhook == <<selection, aggregator, runner, sending, otherThanExtra>>

PostBeginStep ==
    (\E max_retries \in 0..MaxRetries : _post_payload_begin(max_retries))
        /\ UNCHANGED otherThanWebhook
PostRequestStep ==
    (\E outcome \in Outcomes : _post_payload_request(outcome)) /\ UNCHANGED otherThanWebhook
PostRetryStep == _post_payload_retry /\ UNCHANGED otherThanWebhook

NextPost == PostBeginStep \/ PostRequestStep \/ PostRetryStep

SpecPost == Init /\ [][NextPost]_vars

(***************************************************************************)
(* Claims about _post_payload                                              *)
(***************************************************************************)
Posting == webhook.pc # "idle"
Attempts == Len(webhook.outcomes)
LastOutcome == webhook.outcomes[Attempts]
FailsRetryably(outcome) ==
    \/ outcome.kind = "error"
    \/ outcome.status = 429
    \/ outcome.status \in 500..599
IsSuccess(outcome) == outcome.kind = "response" /\ outcome.status \in 200..299

\* C35: posting one payload makes at most max_retries + 1 HTTP attempts; a
\* further attempt follows only a transport error or a 429/5xx response; the
\* call returns on the first 2xx response, raises at once on any other
\* status, and raises when attempt number max_retries + 1 fails retryably.
C35_PostRetriesAtMostMaxRetries ==
    Posting =>
        /\ Attempts <= webhook.max_retries + 1
        /\ \A i \in 1..(Attempts - 1) : FailsRetryably(webhook.outcomes[i])
        /\ webhook.pc = "returned" <=> (Attempts > 0 /\ IsSuccess(LastOutcome))
        /\ webhook.pc = "raised" <=>
              /\ Attempts > 0
              /\ ~IsSuccess(LastOutcome)
              /\ FailsRetryably(LastOutcome) => Attempts = webhook.max_retries + 1
        /\ webhook.pc = "sleeping" =>
              FailsRetryably(LastOutcome) /\ Attempts <= webhook.max_retries

C35_Witness ==
    /\ webhook.pc = "raised"
    /\ webhook.max_retries = MaxRetries
    /\ Attempts = MaxRetries + 1
    /\ LastOutcome.status = 429
    /\ webhook.outcomes[1].kind = "error"


(***************************************************************************)
(* adapters/discord_sink.py: DiscordWebhookSink.publish, _enqueue and      *)
(* _flush_after.  The lock is never held across a suspension, so the body  *)
(* of each "async with self._lock" is one step.  A flush task is a record  *)
(* of its number and key; it lives from create_task until the step that    *)
(* ends its sleep.  posted lists the payloads handed to _post_payload, each *)
(* with the numbers of the events it was built from.                       *)
(***************************************************************************)
MaxEvents == 4

SinkEvent(event_type, signal, market_id, side) ==
    [event_type |-> event_type, signal |-> signal, market_id |-> market_id, side |-> side]

SinkEvents ==
    {SinkEvent("TradeSignal", Some("big_trade"), Some("m1"), Some("Up")),
     SinkEvent("TradeSignal", Some("major_change"), Some("m1"), Some("Up")),
     SinkEvent("TradeSignal", Some("big_trade"), Some("m1"), Some("yes")),
     SinkEvent("TradeSignal", Some("big_wall"), Some("m1"), Some("Up")),
     SinkEvent("TradeSignal", Some("big_trade"), None, Some("Up")),
     SinkEvent("MarketLifecycle", None, Some("m1"), None)}

AggregatedSignals == {"major_change", "big_trade", "volume_spike_1m"}

\* str.upper() on the sides that occur
Upper(side) == CASE side = "yes" -> "YES" [] side = "no" -> "NO" [] side = "Up" -> "UP"
                 [] OTHER -> side

_should_aggregate(config, event) ==
    /\ config.aggregate_multi_outcome
    /\ event.event_type = "TradeSignal"
    /\ event.signal # None /\ Val(event.signal) \in AggregatedSignals
    /\ event.market_id # None /\ event.side # None
    /\ Upper(Val(event.side)) \notin {"YES", "NO"}

AggregateKey(event) ==
    <<IF event.market_id = None THEN "n/a" ELSE Val(event.market_id),
      IF event.signal = None THEN "signal" ELSE Val(event.signal)>>

Numbered(event, n) ==
    [n |-> n, event_type |-> event.event_type, signal |-> event.signal,
     market_id |-> event.market_id, side |-> event.side]

\* self._pending_tasks[key] = asyncio.create_task(...) for every event
EnqueueAlwaysSchedules(a, event) ==
    LET key == AggregateKey(event)
        buffer == IF key \in DOMAIN a.pending THEN a.pending[key] ELSE <<>>
        task == [id |-> a.spawned + 1, key |-> key]
    IN  [a EXCEPT !.pending = PutKey(@, key, Append(buffer, event)),
                  !.pending_tasks = PutKey(@, key, task.id),
                  !.tasks = @ \cup {task},
                  !.spawned = @ + 1]

\* _enqueue: the body under the lock
_enqueue(a, event) ==
    LET key == AggregateKey(event)
        buffer == IF key \in DOMAIN a.pending THEN a.pending[key] ELSE <<>>
        task == [id |-> a.spawned + 1, key |-> key]
        a1 == [a EXCEPT !.pending = PutKey(@, key, Append(buffer, event))]
    IN  IF key \notin DOMAIN a.pending_tasks
        THEN [a1 EXCEPT !.pending_tasks = PutKey(@, key, task.id),
                        !.tasks = @ \cup {task},
                        !.spawned = @ + 1]
        ELSE a1

SinglePayload(event) == [aggregate |-> FALSE, key |-> AggregateKey(event), events |-> <<event.n>>]
AggregatePayload(key, events) ==
    [aggregate |-> TRUE, key |-> key, events |-> [i \in DOMAIN events |-> events[i].n]]

\* publish, up to the return of _enqueue or the call of _post_payload
sink_publish(event) ==
    /\ aggregator.accepted < MaxEvents
    /\ LET e == Numbered(event, aggregator.accepted + 1)
           a == [aggregator EXCEPT !.accepted = @ + 1,
                                   !.call = [op |-> "publish", key |-> AggregateKey(event)]]
       IN  aggregator' =
             IF ~a.config.enabled THEN a
             ELSE IF _should_aggregate(a.config, event) THEN _enqueue(a, e)
             ELSE [a EXCEPT !.posted = Append(@, SinglePayload(e))]

\* _flush_after, from the end of its sleep to the call of _post_payload
_flush_after(task) ==
    /\ task \in aggregator.tasks
    /\ LET key == task.key
           events == IF key \in DOMAIN aggregator.pending
                     THEN aggregator.pending[key] ELSE <<>>
           a == [aggregator EXCEPT !.pending = DropKey(@, key),
                                   !.pending_tasks = DropKey(@, key),
                                   !.tasks = @ \ {task},
                                   !.call = [op |-> "_flush_after", key |-> key]]
       IN  aggregator' =
             IF events = <<>> THEN a
             ELSE [a EXCEPT !.posted = Append(@, AggregatePayload(key, events))]

AggregatorConfigs ==
    {[enabled |-> en, aggregate_multi_outcome |-> amo]
     : en \in BOOLEAN, amo \in BOOLEAN}

InitAggregate ==
    /\ InitBook
    /\ InitComponent
    /\ InitEngine(DefaultConfig)
    /\ InitAdapters
    /\ InitSelection /\ InitWebhook /\ InitRunner /\ InitSending
    /\ \E config \in AggregatorConfigs :
          aggregator = [config |-> config, pending |-> EmptyMap, pending_tasks |-> EmptyMap,
                        tasks |-> {}, spawned |-> 0, accepted |-> 0, posted |-> <<>>,
                        call |-> [op |-> "none", key |-> <<>>]]

otherThanAggregator == <<selection, webhook, runner, sending, otherThanExtra>>

SinkPublishStep ==
    (\E event \in SinkEvents : sink_publish(event)) /\ UNCHANGED otherThanAggregator
SinkFlushStep ==
    (\E task \in aggregator.tasks : _flush_after(task)) /\ UNCHANGED otherThanAggregator

NextAggregate == SinkPublishStep \/ SinkFlushStep

SpecAggregate == InitAggregate /\ [][NextAggregate]_vars

(***************************************************************************)
(* Claims about the webhook sink's aggregation                             *)
(***************************************************************************)
AggregatesOf(a, key) ==
    {i \in DOMAIN a.posted : a.posted[i].aggregate /\ a.posted[i].key = key}
FlushTasksOf(a, key) == {task \in a.tasks : task.key = key}
BufferOf(a, key) == IF key \in DOMAIN a.pending THEN a.pending[key] ELSE <<>>
\* how often event number n occurs in the buffers and in the aggregates posted
Occurrences(a, n) ==
    Cardinality({<<key, i>> \in (DOMAIN a.pending) \X (1..MaxEvents) :
                    i \in DOMAIN a.pending[key] /\ a.pending[key][i].n = n})
      + Cardinality({<<p, i>> \in (DOMAIN a.posted) \X (1..MaxEvents) :
                    /\ a.posted[p].aggregate
                    /\ i \in DOMAIN a.posted[p].events
                    /\ a.posted[p].events[i] = n})
AggregateKeys == {AggregateKey(event) : event \in SinkEvents}
Enqueued(a1, a2, key) == Len(BufferOf(a2, key)) = Len(BufferOf(a1, key)) + 1

\* C36: the first event of a key schedules exactly one flush and later ones
\* none while it is pending; the flush takes the whole buffer into one
\* aggregate; an event after it starts a new buffer with a flush of its own;
\* and every enqueued event is in exactly one place, a buffer or an aggregate.
C36_OneFlushPerWindowNoEventLost ==
    [][/\ \A key \in AggregateKeys :
             /\ Cardinality(FlushTasksOf(aggregator', key))
                    = (IF BufferOf(aggregator', key) # <<>> THEN 1 ELSE 0)
             /\ Enqueued(aggregator, aggregator', key) =>
                    /\ aggregator'.call.op = "publish"
                    /\ Occurrences(aggregator', aggregator'.accepted) = 1
                    /\ aggregator'.spawned
                          = aggregator.spawned + (IF BufferOf(aggregator, key) = <<>> THEN 1 ELSE 0)
       /\ aggregator'.call.op = "_flush_after" =>
             LET key == aggregator'.call.key
             IN  /\ BufferOf(aggregator, key) # <<>>
                 /\ aggregator'.posted
                       = Append(aggregator.posted,
                                AggregatePayload(key, BufferOf(aggregator, key)))
                 /\ BufferOf(aggregator', key) = <<>>
       /\ aggregator'.spawned
             = Cardinality(aggregator'.tasks)
                 + Cardinality({i \in DOMAIN aggregator'.posted : aggregator'.posted[i].aggregate})
       /\ \A n \in 1..aggregator'.accepted : Occurrences(aggregator', n) <= 1
       /\ \A n \in 1..aggregator.accepted :
             Occurrences(aggregator', n) = Occurrences(aggregator, n)
      ]_vars

\* a second window of one key: its first aggregate is posted and a later
\* event waits in a new buffer with a flush of its own
C36_Witness ==
    /\ aggregator.config.enabled
    /\ \E key \in AggregateKeys :
          /\ \E i \in AggregatesOf(aggregator, key) : Len(aggregator.posted[i].events) = 2
          /\ Len(BufferOf(aggregator, key)) = 1
          /\ Cardinality(FlushTasksOf(aggregator, key)) = 1
          /\ aggregator.spawned >= 2


(***************************************************************************)
(* component.py: PolymarketComponent.run.  The three coroutines run as     *)
(* tasks of one asyncio.TaskGroup; a task is "running", "cancelling" (a    *)
(* cancellation has been requested and not yet delivered), or done as      *)
(* "finished", "failed" or "cancelled".  The group follows                 *)
(* asyncio.taskgroups: a task that fails aborts the group, a task that     *)
(* ends cancelled or finished does not.                                    *)
(***************************************************************************)
LoopTasks == {"refresh", "consume"}
TasksOf(dashboard) == IF dashboard THEN LoopTasks \cup {"dashboard"} ELSE LoopTasks
DoneStates == {"finished", "failed", "cancelled"}

\* TaskGroup._abort: request the cancellation of every task not done
Abort(tasks) == [t \in DOMAIN tasks |-> IF tasks[t] = "running" THEN "cancelling" ELSE tasks[t]]

\* run: the TaskGroup is entered and the tasks are created
run_enter(dashboard) ==
    /\ runner.pc = "idle"
    /\ runner' = [pc |-> "in_group", dashboard |-> dashboard,
                  tasks |-> [t \in TasksOf(dashboard) |-> "running"],
                  aborting |-> FALSE, errors |-> {}, run_cancelled |-> FALSE,
                  dashboard_stopped |-> FALSE, feed_close_called |-> FALSE]

\* a task raises an exception other than CancelledError: TaskGroup._on_task_done
task_fails(t) ==
    /\ runner.pc = "in_group"
    /\ runner.tasks[t] \in {"running", "cancelling"}
    /\ LET tasks == [runner.tasks EXCEPT ![t] = "failed"]
       IN  runner' = [runner EXCEPT !.tasks = IF runner.aborting THEN tasks ELSE Abort(tasks),
                                    !.aborting = TRUE,
                                    !.errors = @ \cup {t}]

\* a coroutine returns: _consume_loop when messages() ends, the dashboard
\* when its stop event is set; _refresh_loop has no return
task_returns(t) ==
    /\ runner.pc = "in_group"
    /\ t # "refresh"
    /\ runner.tasks[t] = "running"
    /\ runner' = [runner EXCEPT !.tasks[t] = "finished"]

\* one task alone is cancelled: Task.cancel() on it from outside the group
task_cancel_requested(t) ==
    /\ runner.pc = "in_group"
    /\ runner.tasks[t] = "running"
    /\ runner' = [runner EXCEPT !.tasks[t] = "cancelling"]

\* the CancelledError reaches the coroutine and leaves it; _on_task_done
\* returns at "if task.cancelled()"
task_ends_cancelled(t) ==
    /\ runner.pc = "in_group"
    /\ runner.tasks[t] = "cancelling"
    /\ runner' = [runner EXCEPT !.tasks[t] = "cancelled"]

\* the task that awaits run() is cancelled: TaskGroup.__aexit__ aborts
run_cancel_requested ==
    /\ runner.pc = "in_group"
    /\ ~runner.run_cancelled
    /\ runner' = [runner EXCEPT !.tasks = IF runner.aborting THEN @ ELSE Abort(@),
                                !.aborting = TRUE,
                                !.run_cancelled = TRUE]

\* every task is done: __aexit__ ends, then the finally block, then run
\* returns or raises
run_leave ==
    /\ runner.pc = "in_group"
    /\ \A t \in DOMAIN runner.tasks : runner.tasks[t] \in DoneStates
    /\ runner' = [runner EXCEPT
                    !.pc = IF runner.errors # {} \/ runner.run_cancelled
                           THEN "raised" ELSE "returned",
                    !.dashboard_stopped = runner.dashboard,
                    !.feed_close_called = TRUE]

otherThanRunner == <<selection, webhook, aggregator, sending, otherThanExtra>>
RunTasks == IF runner.pc = "idle" THEN {} ELSE DOMAIN runner.tasks

RunEnterStep == (\E dashboard \in BOOLEAN : run_enter(dashboard)) /\ UNCHANGED otherThanRunner
TaskFailsStep == (\E t \in RunTasks : task_fails(t)) /\ UNCHANGED otherThanRunner
TaskReturnsStep == (\E t \in RunTasks : task_returns(t)) /\ UNCHANGED otherThanRunner
TaskCancelStep ==
    (\E t \in RunTasks : task_cancel_requested(t)) /\ UNCHANGED otherThanRunner
TaskEndsCancelledStep ==
    (\E t \in RunTasks : task_ends_cancelled(t)) /\ UNCHANGED otherThanRunner
RunCancelStep == run_cancel_requested /\ UNCHANGED otherThanRunner
RunLeaveStep == run_leave /\ UNCHANGED otherThanRunner

NextRun ==
    \/ RunEnterStep \/ TaskFailsStep \/ TaskReturnsStep \/ TaskCancelStep
    \/ TaskEndsCancelledStep \/ RunCancelStep \/ RunLeaveStep

SpecRun == Init /\ [][NextRun]_vars

(***************************************************************************)
(* Claims about run                                                        *)
(***************************************************************************)
Entered == runner.pc # "idle"
CancelledOrFailed(t) == runner.tasks[t] \in {"cancelled", "failed"}

\* Once a loop has failed the other one is no longer running, and run has
\* called feed.close() when it has returned or raised.
FailureCancelsBothAndFeedIsClosed ==
    Entered =>
        /\ \A t \in LoopTasks : runner.tasks[t] = "failed" =>
              \A u \in LoopTasks : runner.tasks[u] # "running"
        /\ runner.pc \in {"returned", "raised"} => runner.feed_close_called

\* C31: once either loop is cancelled or has ended with an error the other
\* one is cancelled too (it is no longer running), and feed.close() has been
\* called when run has returned or raised.
C31_EitherLoopEndingCancelsTheOther ==
    Entered =>
        /\ \A t \in LoopTasks : CancelledOrFailed(t) =>
              \A u \in LoopTasks : runner.tasks[u] # "running"
        /\ runner.pc \in {"returned", "raised"} => runner.feed_close_called


(***************************************************************************)
(* adapters/clob_ws.py with component.py: the feed's subscription calls as *)
(* the two tasks make them, each suspended at its websocket send.  The     *)
(* refresh task calls subscribe (component.py:185) and assigns _token_ids  *)
(* after the publish that follows (186-187); the consume task runs         *)
(* messages(), which connects and sends the initial subscription, and      *)
(* calls resubscribe(self._token_ids) (component.py:492).  sending holds   *)
(* where each task is suspended, the component's _token_ids and the set    *)
(* the server streams on this connection.                                  *)
(***************************************************************************)
SendIdSets == SUBSET {0, 1}

Idle == [pc |-> "idle", to_add |-> {}, to_remove |-> {}, ids |-> {}]
Suspended(pc, to_add, to_remove) ==
    [pc |-> pc, to_add |-> to_add, to_remove |-> to_remove, ids |-> {}]

\* the server's set after the frames: an initial frame and a subscribe
\* operation add their ids, an unsubscribe operation removes them
RECURSIVE Deliver(_, _)
Deliver(server, frames) ==
    IF frames = <<>> THEN server
    ELSE LET frame == Head(frames)
         IN  Deliver(IF frame.operation = Some("unsubscribe")
                     THEN server \ frame.assets_ids
                     ELSE server \cup frame.assets_ids,
                     Tail(frames))

Progress(frames, subscribed, cont) ==
    [frames |-> frames, subscribed |-> subscribed, cont |-> cont]

\* _apply_subscription_changes up to its first send, or to its return
BeginChanges(desired, subscribed, initial) ==
    IF initial \/ subscribed = {}
    THEN IF desired = {}
         THEN Progress(<<>>, desired, Idle)
         ELSE Progress(_send_initial_subscription(desired), subscribed,
                       Suspended("initial_sent", {}, {}))
    ELSE LET to_add == desired \ subscribed
             to_remove == subscribed \ desired
         IN  IF to_add # {}
             THEN Progress(_send_operation("subscribe", to_add), subscribed,
                           Suspended("add_sent", to_add, to_remove))
             ELSE IF to_remove # {}
             THEN Progress(_send_operation("unsubscribe", to_remove), subscribed,
                           Suspended("remove_sent", to_add, to_remove))
             ELSE Progress(<<>>, subscribed, Idle)

\* the statements after a send, up to the next send or the return
ResumeChanges(cont, desired, subscribed) ==
    CASE cont.pc = "initial_sent" -> Progress(<<>>, desired, Idle)
      [] cont.pc = "add_sent" ->
            IF cont.to_remove # {}
            THEN Progress(_send_operation("unsubscribe", cont.to_remove),
                          subscribed \cup cont.to_add,
                          Suspended("remove_sent", cont.to_add, cont.to_remove))
            ELSE Progress(<<>>, subscribed \cup cont.to_add, Idle)
      [] cont.pc = "remove_sent" -> Progress(<<>>, subscribed \ cont.to_remove, Idle)

\* subscribe returned: the refresh task goes on to _emit_subscription_changed
Returned(cont, ids) == IF cont.pc = "idle" THEN [Idle EXCEPT !.pc = "emitting", !.ids = ids]
                       ELSE [cont EXCEPT !.ids = ids]

Transmit(frames, subscribed, refresh, consume) ==
    /\ sent' = frames
    /\ subscribed_ids' = subscribed
    /\ sending' = [sending EXCEPT !.server = Deliver(@, frames),
                                  !.refresh = refresh, !.consume = consume]

\* _handle_refresh: token_ids != self._token_ids, and subscribe to its first send
refresh_subscribe(ids) ==
    /\ sending.refresh.pc = "idle"
    /\ ids # sending.token_ids
    /\ desired_ids' = ids
    /\ feedCall' = [op |-> "subscribe", token_ids |-> ids, open |-> ws_open,
                    initial |-> subscribed_ids = {}]
    /\ IF ~ws_open
       THEN Transmit(<<>>, subscribed_ids, Returned(Idle, ids), sending.consume)
       ELSE LET r == BeginChanges(ids, subscribed_ids, FALSE)
            IN  Transmit(r.frames, r.subscribed, Returned(r.cont, ids), sending.consume)
    /\ UNCHANGED <<ws_open, stopped>>

\* a send of subscribe completes
refresh_resume ==
    /\ sending.refresh.pc \in {"initial_sent", "add_sent", "remove_sent"}
    /\ LET r == ResumeChanges(sending.refresh, desired_ids, subscribed_ids)
       IN  Transmit(r.frames, r.subscribed, Returned(r.cont, sending.refresh.ids),
               sending.consume)
    /\ feedCall' = [op |-> "subscribe_resumed", token_ids |-> sending.refresh.ids,
                    open |-> ws_open, initial |-> FALSE]
    /\ UNCHANGED <<ws_open, stopped, desired_ids>>

\* _emit_subscription_changed returns: self._token_ids = token_ids
refresh_assign ==
    /\ sending.refresh.pc = "emitting"
    /\ sending' = [sending EXCEPT !.token_ids = sending.refresh.ids, !.refresh = Idle]
    /\ sent' = <<>>
    /\ feedCall' = [op |-> "assign", token_ids |-> sending.refresh.ids, open |-> ws_open,
                    initial |-> FALSE]
    /\ UNCHANGED <<ws_open, stopped, desired_ids, subscribed_ids>>

\* _handle_resync: resubscribe(self._token_ids) to its send
consume_resubscribe ==
    /\ sending.consume.pc = "idle"
    /\ sending.token_ids # {}
    /\ desired_ids' = sending.token_ids
    /\ feedCall' = [op |-> "resubscribe", token_ids |-> sending.token_ids, open |-> ws_open,
                    initial |-> TRUE]
    /\ IF ~ws_open
       THEN Transmit(<<>>, subscribed_ids, sending.refresh, Idle)
       ELSE Transmit(_send_initial_subscription(sending.token_ids), subscribed_ids,
                sending.refresh, Suspended("initial_sent", {}, {}))
    /\ UNCHANGED <<ws_open, stopped>>

\* messages(): connect() and _ensure_subscription() to its send
consume_connect ==
    /\ sending.consume.pc = "idle"
    /\ ~stopped /\ desired_ids # {} /\ ~ws_open
    /\ ws_open' = TRUE
    /\ LET r == BeginChanges(desired_ids, {}, TRUE)
       IN  /\ sent' = r.frames
           /\ subscribed_ids' = r.subscribed
           /\ sending' = [sending EXCEPT !.server = Deliver({}, r.frames),
                                         !.consume = r.cont]
    /\ feedCall' = [op |-> "connect", token_ids |-> desired_ids, open |-> FALSE,
                    initial |-> TRUE]
    /\ UNCHANGED <<stopped, desired_ids>>

\* the send of resubscribe or of _ensure_subscription completes
consume_resume ==
    /\ sending.consume.pc = "initial_sent"
    /\ LET r == ResumeChanges(sending.consume, desired_ids, subscribed_ids)
       IN  Transmit(r.frames, r.subscribed, sending.refresh, r.cont)
    /\ feedCall' = [op |-> "consume_resumed", token_ids |-> desired_ids, open |-> ws_open,
                    initial |-> TRUE]
    /\ UNCHANGED <<ws_open, stopped, desired_ids>>

\* the connection ends while no send is in flight
connection_lost_between_sends ==
    /\ ws_open
    /\ sending.consume.pc = "idle"
    /\ sending.refresh.pc \in {"idle", "emitting"}
    /\ ws_open' = FALSE
    /\ sent' = <<>>
    /\ feedCall' = [op |-> "lost", token_ids |-> {}, open |-> TRUE, initial |-> FALSE]
    /\ UNCHANGED <<stopped, desired_ids, subscribed_ids, sending>>

otherThanSending ==
    <<bookVars, consumeVars, sigVars, muxVars, refreshVars, msgVars,
      selection, webhook, aggregator, runner>>

RefreshSubscribeStep ==
    (\E ids \in SendIdSets : refresh_subscribe(ids)) /\ UNCHANGED otherThanSending
RefreshResumeStep == refresh_resume /\ UNCHANGED otherThanSending
RefreshAssignStep == refresh_assign /\ UNCHANGED otherThanSending
ConsumeResubscribeStep == consume_resubscribe /\ UNCHANGED otherThanSending
ConsumeConnectStep == consume_connect /\ UNCHANGED otherThanSending
ConsumeResumeStep == consume_resume /\ UNCHANGED otherThanSending
LostBetweenSendsStep == connection_lost_between_sends /\ UNCHANGED otherThanSending

InitSend ==
    /\ InitBook
    /\ InitComponent
    /\ InitEngine(DefaultConfig)
    /\ InitAdapters
    /\ InitSelection /\ InitWebhook /\ InitAggregator /\ InitRunner
    /\ sending = [refresh |-> Idle, consume |-> Idle, server |-> {}, token_ids |-> {}]

NextSend ==
    \/ RefreshSubscribeStep \/ RefreshResumeStep \/ RefreshAssignStep
    \/ ConsumeResubscribeStep \/ ConsumeConnectStep \/ ConsumeResumeStep
    \/ LostBetweenSendsStep

SpecSend == InitSend /\ [][NextSend]_vars

(***************************************************************************)
(* Claims about the interleaved subscription calls                         *)
(***************************************************************************)
NoSendInFlight ==
    /\ sending.consume.pc = "idle"
    /\ sending.refresh.pc \in {"idle", "emitting"}

\* C40: on an open connection, once every subscribe, resubscribe and initial
\* subscription has completed, subscribed_ids equals desired_ids and equals
\* the set the server has been told to stream.
C40_CompletedCallsAgreeWithTheServer ==
    (ws_open /\ NoSendInFlight) =>
        /\ subscribed_ids = desired_ids
        /\ desired_ids = sending.server


(***************************************************************************)
(* Claims about the order of the signals of one token                      *)
(***************************************************************************)
FlushedKeys == DOMAIN trade_buckets \ DOMAIN trade_buckets'
FirstDeposit(bucket) == bucket.due - cfg.merge_window_sec
PublishedSince(token_id, time) ==
    {k \in DOMAIN lastEmit : k[1] = token_id /\ lastEmit[k] > time}

\* With no merge window every signal is published by the handler of the
\* observation that caused it, for that observation's token.
UnmergedSignalsComeFromTheirHandler ==
    [][(cfg.merge_window_sec = 0 /\ published' # <<>>) =>
          /\ sigCall'.op \in {"handle_trade", "handle_trade_until_publish",
                              "handle_trade_resumed", "handle_book"}
          /\ \A i \in DOMAIN published' : Some(published'[i].token_id) = sigCall'.token_id
      ]_vars

\* C32: the signals of one token are published in the order of the
\* observations that caused them.  The event a flush publishes is caused by
\* the trades deposited in its bucket, so no signal of the token has been
\* published since the bucket's first deposit.
C32_SignalsPublishedInObservationOrder ==
    [][(sigCall'.op = "_flush_trade_bucket" /\ published' # <<>>) =>
          \A key \in FlushedKeys :
              PublishedSince(trade_buckets[key].token_id,
                             FirstDeposit(trade_buckets[key])) = {}
      ]_vars

====
